---- MODULE Spec2Model ----
(***************************************************************************)
(* Template extraction and cross-grammar token projection of t-linter.     *)
(*                                                                         *)
(* A text is a sequence of one-character strings; byte offsets are 0-based *)
(* as in the Rust source, sequence indices are 1-based.  The host grammar  *)
(* (tree-sitter-python) is an external library: the model takes the syntax *)
(* tree of a template literal as its input (a sequence of pieces) and      *)
(* derives the document text from it, so that every tree is the parse of   *)
(* its own text.                                                           *)
(***************************************************************************)
EXTENDS Integers, Sequences, FiniteSets, TLC

VARIABLES
    pc,                \* "edit", "parsed", "highlighted", "failed", "projected", "panicked"
    document,          \* the syntax tree of the text handed to the parser
    module_context,    \* the ModuleContext built by the last find_template_strings
    previous_context,  \* the ModuleContext the parser held when the document arrived
    template_list,     \* the Vec<TemplateStringInfo> it returned
    highlight_ranges,  \* highlight_template's ranges for the first template
    lsp_tokens,        \* to_lsp_tokens' tokens for the first template
    match_order,       \* the order in which the query cursor yields the matches of one node
    document_cache,    \* the server's DashMap<Url, String>: uri -> cached text, if any
    response,          \* the outcome of the last semantic_tokens_full
    handlers,          \* the handler futures of the server, in arrival order
    mutexes            \* the tokio Mutexes around the parser and the highlighter

coreVars ==
    <<pc, document, module_context, previous_context, template_list,
      highlight_ranges, lsp_tokens, match_order>>

serverVars ==
    <<document_cache, response, handlers, mutexes>>

vars == <<coreVars, serverVars>>

None == "None"

LB == "{"
RB == "}"
NL == "\n"
QUOTE == "\""

(* ---------------------------------------------------------------------- *)
(* bounds                                                                  *)
(* ---------------------------------------------------------------------- *)
MaxPieces == 3            \* pieces of a template literal, extraction alone
MaxProjectedPieces == 2   \* pieces of a template literal that is also projected
MaxSpans == 2             \* spans the embedded grammar yields for one template
MaxStatements == 3        \* statements of a document
MaxParserStatements == 2  \* statements of a document given to a reused parser
MaxParameters == 2        \* parameters of a function definition
MaxArguments == 3         \* arguments of a call
MaxSessionStatements == 2 \* statements of the document a session opens
MaxEvents == 1            \* Source events the embedded grammar yields for one template
MaxNotifications == 3     \* notifications a client sends one after the other
MaxChanges == 2           \* content changes of one did_change
MaxHandlers == 3          \* requests of a session that are handled concurrently
MaxTokenPieces == 2       \* pieces of the template of a token request
MaxAliasStatements == 4   \* statements of a document with imports and type aliases
MaxMatchStatements == 2   \* statements of a document whose query matches are ordered

(* ---------------------------------------------------------------------- *)
(* text helpers                                                            *)
(* ---------------------------------------------------------------------- *)
RECURSIVE Flatten(_)
Flatten(ss) ==
    IF ss = <<>> THEN <<>> ELSE Head(ss) \o Flatten(Tail(ss))

Slice(s, a, b) == SubSeq(s, a + 1, b)

StartsWith(s, p) == Len(s) >= Len(p) /\ SubSeq(s, 1, Len(p)) = p

EndsWith(s, p) == Len(s) >= Len(p) /\ SubSeq(s, Len(s) - Len(p) + 1, Len(s)) = p

RECURSIVE CountChar(_, _)
CountChar(s, c) ==
    IF s = <<>> THEN 0
    ELSE (IF Head(s) = c THEN 1 ELSE 0) + CountChar(Tail(s), c)

SeqsUpTo(S, n) == UNION {[1..k -> S] : k \in 0..n}

(* ---------------------------------------------------------------------- *)
(* the syntax tree of a template literal                                   *)
(* ---------------------------------------------------------------------- *)
LiteralPieces == {"a", "nl", "lb", "rb"}
InterpolationPieces == {"ix", "ifmt", "iml"}
PieceKinds == LiteralPieces \cup InterpolationPieces

PieceRaw(p) ==
    CASE p = "a" -> <<"a">>
      [] p = "nl" -> <<NL>>
      [] p = "lb" -> <<LB, LB>>
      [] p = "rb" -> <<RB, RB>>
      [] p = "ix" -> <<LB, "x", RB>>
      [] p = "ifmt" -> <<LB, "x", ":", LB, "w", RB, RB>>
      [] p = "iml" -> <<LB, "(", NL, ")", RB>>

InterpolationChildren(p) ==
    CASE p = "ix" ->
           << [kind |-> LB, from |-> 0, to |-> 1],
              [kind |-> "identifier", from |-> 1, to |-> 2],
              [kind |-> RB, from |-> 2, to |-> 3] >>
      [] p = "ifmt" ->
           << [kind |-> LB, from |-> 0, to |-> 1],
              [kind |-> "identifier", from |-> 1, to |-> 2],
              [kind |-> "format_specifier", from |-> 2, to |-> 6],
              [kind |-> RB, from |-> 6, to |-> 7] >>
      [] p = "iml" ->
           << [kind |-> LB, from |-> 0, to |-> 1],
              [kind |-> "tuple", from |-> 1, to |-> 4],
              [kind |-> RB, from |-> 4, to |-> 5] >>

Openers ==
    { <<"t", QUOTE>>, <<"T", QUOTE>>, <<"t", "r", QUOTE>>,
      <<"t", QUOTE, QUOTE, QUOTE>> }

IsTripleOpener(op) == EndsWith(op, <<QUOTE, QUOTE, QUOTE>>)

Closer(op) == IF IsTripleOpener(op) THEN <<QUOTE, QUOTE, QUOTE>> ELSE <<QUOTE>>

RawInterior(ps) == Flatten([i \in 1..Len(ps) |-> PieceRaw(ps[i])])

RawLiteral(lit) == lit.opener \o RawInterior(lit.pieces) \o Closer(lit.opener)

StringLiteral(op, ps) == [kind |-> "string", opener |-> op, pieces |-> ps]

(* children of a string node between string_start and string_end: adjacent  *)
(* literal pieces form one string_content node.  Grammar versions differ in *)
(* whether an escape is part of string_content or a child of its own.       *)
RECURSIVE PieceNodes(_, _, _)
PieceNodes(ps, off, escDirect) ==
    IF ps = <<>> THEN <<>>
    ELSE LET p == Head(ps)
             n == Len(PieceRaw(p))
             k == IF p \in InterpolationPieces THEN "interpolation"
                  ELSE IF escDirect /\ p \in {"lb", "rb"} THEN "escape_interpolation"
                  ELSE "string_content"
         IN  << [kind |-> k, start_byte |-> off, end_byte |-> off + n,
                 piece |-> IF k = "interpolation" THEN p ELSE None] >>
             \o PieceNodes(Tail(ps), off + n, escDirect)

RECURSIVE MergeContent(_)
MergeContent(nodes) ==
    IF Len(nodes) < 2 THEN nodes
    ELSE IF nodes[1].kind = "string_content" /\ nodes[2].kind = "string_content"
         THEN MergeContent(<< [nodes[1] EXCEPT !.end_byte = nodes[2].end_byte] >>
                           \o SubSeq(nodes, 3, Len(nodes)))
         ELSE << nodes[1] >> \o MergeContent(Tail(nodes))

StringNode(lit, off, escDirect) ==
    LET bodyStart == off + Len(lit.opener)
        bodyEnd == bodyStart + Len(RawInterior(lit.pieces))
        endByte == bodyEnd + Len(Closer(lit.opener))
    IN  [ id |-> off,
          kind |-> "string",
          start_byte |-> off,
          end_byte |-> endByte,
          children |->
              << [kind |-> "string_start", start_byte |-> off,
                  end_byte |-> bodyStart, piece |-> None] >>
              \o MergeContent(PieceNodes(lit.pieces, bodyStart, escDirect))
              \o << [kind |-> "string_end", start_byte |-> bodyEnd,
                     end_byte |-> endByte, piece |-> None] >> ]

Utf8Text(node, source) == Slice(source, node.start_byte, node.end_byte)

(* tree-sitter Point of a byte offset: 0-based row, column in bytes *)
PointAt(source, k) ==
    LET nls == {i \in 1..k : source[i] = NL}
        lastNl == IF nls = {} THEN 0 ELSE CHOOSE i \in nls : \A j \in nls : j <= i
    IN  [row |-> Cardinality(nls), column |-> k - lastNl]

LocationOf(source, startByte, endByte) ==
    [ start_line |-> PointAt(source, startByte).row + 1,
      start_column |-> PointAt(source, startByte).column + 1,
      end_line |-> PointAt(source, endByte).row + 1,
      end_column |-> PointAt(source, endByte).column + 1 ]

(* ---------------------------------------------------------------------- *)
(* parser.rs: interior reconstruction                                      *)
(* ---------------------------------------------------------------------- *)
(* variant: a doubled brace is copied as written *)
ProcessStringContentVerbatim(text) == text

RECURSIVE ProcessStringContent(_)
ProcessStringContent(text) ==
    IF text = <<>> THEN <<>>
    ELSE IF Len(text) >= 2 /\ text[1] = LB /\ text[2] = LB
         THEN <<LB>> \o ProcessStringContent(SubSeq(text, 3, Len(text)))
    ELSE IF Len(text) >= 2 /\ text[1] = RB /\ text[2] = RB
         THEN <<RB>> \o ProcessStringContent(SubSeq(text, 3, Len(text)))
    ELSE << text[1] >> \o ProcessStringContent(Tail(text))

(* an Option of a record is a sequence of at most one element *)
NonExpressionKinds == {LB, RB, "=", "format_specifier", "type_conversion"}

extract_interpolation_expression(interpolation_node, source) ==
    LET kids == InterpolationChildren(interpolation_node.piece)
        cand == {i \in 1..Len(kids) : kids[i].kind \notin NonExpressionKinds}
    IN  IF cand = {} THEN <<>>
        ELSE LET i == CHOOSE c \in cand : \A d \in cand : c <= d
                 s == interpolation_node.start_byte + kids[i].from
                 e == interpolation_node.start_byte + kids[i].to
             IN  << [ content |-> Slice(source, s, e),
                      location |-> LocationOf(source, s, e) ] >>

Between(last_end_byte, start_byte, source) ==
    IF last_end_byte > 0 /\ start_byte > last_end_byte
    THEN Slice(source, last_end_byte, start_byte)
    ELSE <<>>

(* variant: the interpolation is copied as written *)
InterpolationPartVerbatim(child, source) == Utf8Text(child, source)

InterpolationPart(child, source) == <<LB, RB>>

EscapePart(text) ==
    IF text = <<LB, LB>> THEN <<LB>>
    ELSE IF text = <<RB, RB>> THEN <<RB>>
    ELSE <<>>

ExtractChild(acc, child, source) ==
    LET between == Between(acc.last_end_byte, child.start_byte, source)
    IN  CASE child.kind = "string_content" ->
               [acc EXCEPT
                  !.content = @ \o between
                                \o ProcessStringContent(Utf8Text(child, source)),
                  !.last_end_byte = child.end_byte]
          [] child.kind = "interpolation" ->
               LET expr == extract_interpolation_expression(child, source)
               IN  [acc EXCEPT
                      !.content = @ \o between \o InterpolationPart(child, source),
                      !.expressions = @ \o expr,
                      !.last_end_byte = child.end_byte]
          [] child.kind = "escape_interpolation" ->
               [acc EXCEPT
                  !.content = @ \o between \o EscapePart(Utf8Text(child, source)),
                  !.last_end_byte = child.end_byte]
          [] child.kind \in {"string_start", "string_end"} ->
               [acc EXCEPT !.last_end_byte = child.end_byte]
          [] OTHER ->
               [acc EXCEPT !.content = @ \o between,
                           !.last_end_byte = child.end_byte]

RECURSIVE ExtractChildren(_, _, _)
ExtractChildren(acc, children, source) ==
    IF children = <<>> THEN acc
    ELSE ExtractChildren(ExtractChild(acc, Head(children), source),
                         Tail(children), source)

extract_content_and_interpolations(string_node, source) ==
    LET acc == ExtractChildren(
                   [content |-> <<>>, expressions |-> <<>>, last_end_byte |-> 0],
                   string_node.children, source)
    IN  [content |-> acc.content, expressions |-> acc.expressions]

(* ---------------------------------------------------------------------- *)
(* the syntax tree of a document                                           *)
(*                                                                         *)
(* A document is a sequence of top-level statements, one per line.  A type *)
(* expression is a plain (dotted) name or a subscript base[slot1, slot2].  *)
(* Outside template literals every token is rendered as one symbol.        *)
(* ---------------------------------------------------------------------- *)
NoSlot == [kind |-> None, text |-> None]

Name(n) == [sub |-> FALSE, base |-> <<n>>, slot1 |-> <<>>, slot2 |-> NoSlot]

Subscript(b, s1, s2) == [sub |-> TRUE, base |-> b, slot1 |-> s1, slot2 |-> s2]

Str(t) == [kind |-> "string", text |-> t]

Ident(t) == [kind |-> "identifier", text |-> t]

ImportFrom(m, n, a) == [kind |-> "import_from_statement", module |-> m, name |-> n, alias |-> a]

Import(n) == [kind |-> "import_statement", module |-> <<>>, name |-> n, alias |-> None]

TypeAliasStmt(n, v) == [kind |-> "type_alias_statement", name |-> n, value |-> v]

Assignment(l, t, r) == [kind |-> "assignment", left |-> l, type |-> t, right |-> r]

ExpressionStmt(e) == [kind |-> "expression_statement", expr |-> e]

FunctionDef(n, ps) == [kind |-> "function_definition", name |-> n, parameters |-> ps]

TypedParameter(t) == [kind |-> "typed_parameter", type |-> <<t>>]

UntypedParameter == [kind |-> "identifier", type |-> <<>>]

DefaultParameter == [kind |-> "default_parameter", type |-> <<>>]

TypedDefaultParameter(t) == [kind |-> "typed_default_parameter", type |-> <<t>>]

Call(f, args) == [kind |-> "call", function |-> f, arguments |-> args]

Integer == [kind |-> "integer"]

KeywordArgument == [kind |-> "keyword_argument"]

ListArgument == [kind |-> "list"]

SubscriptExpr(ann) == [kind |-> "subscript", ann |-> ann]

RECURSIVE ArgsText(_)
ExprText(e) ==
    CASE e.kind = "string" -> RawLiteral(e)
      [] e.kind = "call" -> <<e.function, "(">> \o ArgsText(e.arguments) \o <<")">>
      [] e.kind = "keyword_argument" -> <<"k", "=", "1">>
      [] OTHER -> <<"1">>

ArgsText(args) ==
    IF args = <<>> THEN <<>>
    ELSE IF Len(args) = 1 THEN ExprText(args[1])
    ELSE ExprText(args[1]) \o <<",", " ">> \o ArgsText(Tail(args))

AssignmentPrefix(stmt) ==
    <<stmt.left>>
    \o (IF stmt.type = <<>> THEN <<>> ELSE <<":", " ", "A">>)
    \o <<" ", "=", " ">>

StmtText(stmt) ==
    CASE stmt.kind = "assignment" -> AssignmentPrefix(stmt) \o ExprText(stmt.right)
      [] stmt.kind = "expression_statement" -> ExprText(stmt.expr)
      [] OTHER -> <<"s">>

RECURSIVE SourceOf(_)
SourceOf(doc) ==
    IF doc = <<>> THEN <<>>
    ELSE StmtText(Head(doc)) \o <<NL>> \o SourceOf(Tail(doc))

StmtOffset(doc, i) == Len(SourceOf(SubSeq(doc, 1, i - 1)))

ArgOffset(call, callOff, j) ==
    callOff + 2 + Len(ArgsText(SubSeq(call.arguments, 1, j - 1)))
    + (IF j > 1 THEN 2 ELSE 0)

(* ---------------------------------------------------------------------- *)
(* parser.rs: ModuleContext                                                *)
(* ---------------------------------------------------------------------- *)
EmptyMap == [k \in {} |-> None]

Insert(m, key, value) ==
    [k \in DOMAIN m \cup {key} |-> IF k = key THEN value ELSE m[k]]

ModuleContextDefault ==
    [type_aliases |-> EmptyMap, imports |-> EmptyMap, function_signatures |-> EmptyMap]

Last(s) == s[Len(s)]

(* HashMap<String, String>::get with the text of a type expression as key: *)
(* keys are identifiers, so only a plain undotted name can hit.            *)
IsPlainName(ann) == ~ann.sub /\ Len(ann.base) = 1

(* context.imports.get(name).map_or(false, |v| v == "typing.Annotated" ||  *)
(* v.ends_with(".Annotated"))                                              *)
(* variant: only the bare name is taken for Annotated *)
IsAnnotatedNameBare(base, context) == base = <<"Annotated">>

IsAnnotatedName(base, context) ==
    \/ base = <<"Annotated">>
    \/ /\ Len(base) = 1
       /\ base[1] \in DOMAIN context.imports
       /\ LET v == context.imports[base[1]]
          IN  \/ v = <<"typing", "Annotated">>
              \/ Len(v) >= 2 /\ Last(v) = "Annotated"

IsTemplateName(part, context) ==
    \/ part = <<"Template">>
    \/ /\ Len(part) = 1
       /\ part[1] \in DOMAIN context.imports
       /\ LET v == context.imports[part[1]]
          IN  \/ v = <<"string", "templatelib", "Template">>
              \/ v = <<"templatelib", "Template">>
              \/ Len(v) >= 2 /\ Last(v) = "Template"

(* Annotated\s*\[\s*Template\s*,\s*["'](\w+)["']\s*] searched in the text  *)
AnnotatedTemplateRegex(ann) ==
    IF /\ ann.sub
       /\ Last(ann.base) = "Annotated"
       /\ ann.slot1 = <<"Template">>
       /\ ann.slot2.kind = "string"
    THEN ann.slot2.text
    ELSE None

(* the branch for a node of kind "type" whose text has brackets: base name *)
(* before '[', arguments split at ',', quotes trimmed from the second      *)
AnnotationByText(ann, context) ==
    IF IsAnnotatedName(ann.base, context) /\ IsTemplateName(ann.slot1, context)
    THEN ann.slot2.text
    ELSE None

(* the grammar names the bracketed children of a subscript "subscript":    *)
(* child_by_field_name("slice") finds nothing                              *)
SliceChildren(ann) == <<>>

RECURSIVE SliceLoop(_, _, _)
SliceLoop(children, found_template, context) ==
    IF children = <<>> THEN None
    ELSE LET child == Head(children)
         IN  CASE child.kind = "identifier" ->
                    SliceLoop(Tail(children), IsTemplateName(<<child.text>>, context), context)
               [] child.kind = "string" ->
                    IF found_template THEN child.text
                    ELSE SliceLoop(Tail(children), found_template, context)
               [] OTHER -> SliceLoop(Tail(children), found_template, context)

AnnotationByStructure(ann, context) ==
    IF IsAnnotatedName(ann.base, context)
    THEN SliceLoop(SliceChildren(ann), FALSE, context)
    ELSE None

extract_language_from_annotation(nodeKind, ann, context) ==
    LET first ==
            IF nodeKind = "subscript" /\ ann.sub THEN AnnotationByStructure(ann, context)
            ELSE IF nodeKind = "type" /\ ann.sub THEN AnnotationByText(ann, context)
            ELSE None
    IN  IF first # None THEN first ELSE AnnotatedTemplateRegex(ann)

extract_language_from_type_string(type_str) == AnnotatedTemplateRegex(type_str)

(* type_text.contains("TypeAlias") *)
ContainsTypeAlias(ann) ==
    \/ \E i \in 1..Len(ann.base) : ann.base[i] = "TypeAlias"
    \/ \E i \in 1..Len(ann.slot1) : ann.slot1[i] = "TypeAlias"
    \/ ann.slot2.text = "TypeAlias"

extract_function_parameters(params) ==
    LET countable == {"typed_parameter", "typed_default_parameter",
                      "identifier", "default_parameter"}
        position(i) == Cardinality({j \in 1..(i - 1) : params[j].kind \in countable})
        typed == [i \in 1..Len(params) |->
                    IF /\ params[i].kind \in {"typed_parameter", "typed_default_parameter"}
                       /\ params[i].type # <<>>
                    THEN << [pos |-> position(i), type |-> params[i].type[1]] >>
                    ELSE <<>>]
    IN  Flatten(typed)

CollectTypeAlias(context, stmt) ==
    IF stmt.kind = "type_alias_statement"
    THEN LET lang == extract_language_from_annotation("type", stmt.value, context)
         IN  IF lang # None
             THEN [context EXCEPT !.type_aliases = Insert(@, stmt.name, lang)]
             ELSE context
    ELSE context

CollectTypedAssignment(context, stmt) ==
    IF stmt.kind = "assignment" /\ stmt.type # <<>> /\ ContainsTypeAlias(stmt.type[1])
    THEN LET lang == IF stmt.right.kind = "subscript"
                     THEN extract_language_from_annotation("subscript", stmt.right.ann, context)
                     ELSE None
         IN  IF lang # None
             THEN [context EXCEPT !.type_aliases = Insert(@, stmt.left, lang)]
             ELSE context
    ELSE context

CollectImportOrFunction(context, stmt) ==
    CASE stmt.kind \in {"import_statement", "import_from_statement"} ->
           LET key == IF stmt.alias # None THEN stmt.alias ELSE Last(stmt.name)
               value == stmt.module \o stmt.name
           IN  [context EXCEPT !.imports = Insert(@, key, value)]
      [] stmt.kind = "function_definition" ->
           LET param_types == extract_function_parameters(stmt.parameters)
           IN  IF param_types # <<>>
               THEN [context EXCEPT
                       !.function_signatures = Insert(@, stmt.name, param_types)]
               ELSE context
      [] OTHER -> context

RECURSIVE CollectTypeAliases(_, _)
CollectTypeAliases(context, doc) ==
    IF doc = <<>> THEN context
    ELSE CollectTypeAliases(CollectTypeAlias(context, Head(doc)), Tail(doc))

RECURSIVE CollectTypedAssignments(_, _)
CollectTypedAssignments(context, doc) ==
    IF doc = <<>> THEN context
    ELSE CollectTypedAssignments(CollectTypedAssignment(context, Head(doc)), Tail(doc))

RECURSIVE CollectImportsAndFunctions(_, _)
CollectImportsAndFunctions(context, doc) ==
    IF doc = <<>> THEN context
    ELSE CollectImportsAndFunctions(CollectImportOrFunction(context, Head(doc)), Tail(doc))

collect_module_context(doc, context) ==
    CollectImportsAndFunctions(
        CollectTypedAssignments(CollectTypeAliases(context, doc), doc), doc)

(* ---------------------------------------------------------------------- *)
(* parser.rs: the string query and the template records                    *)
(* ---------------------------------------------------------------------- *)
parse_string_flags(start_text) ==
    [ is_template |-> TRUE,
      is_raw |-> \E i \in 1..Len(start_text) : start_text[i] \in {"r", "R"},
      is_format |-> TRUE,
      is_triple |-> EndsWith(start_text, <<QUOTE, QUOTE, QUOTE>>) ]

CountedArgumentKinds ==
    {"string", "identifier", "call", "attribute", "integer", "float",
     "true", "false", "none"}

RECURSIVE LanguageOfSignature(_, _, _)
LanguageOfSignature(signatures, position, context) ==
    IF signatures = <<>> THEN None
    ELSE LET sig == Head(signatures)
             aliased == IF IsPlainName(sig.type) /\ sig.type.base[1] \in DOMAIN context.type_aliases
                        THEN context.type_aliases[sig.type.base[1]]
                        ELSE None
             direct == extract_language_from_type_string(sig.type)
         IN  IF sig.pos = position /\ aliased # None THEN aliased
             ELSE IF sig.pos = position /\ direct # None THEN direct
             ELSE LanguageOfSignature(Tail(signatures), position, context)

infer_language_from_function_call(func_name, m, context) ==
    IF func_name \notin DOMAIN context.function_signatures THEN None
    ELSE LET args == m.arguments
             position == Cardinality({j \in 1..(m.index - 1) :
                                        args[j].kind \in CountedArgumentKinds})
         IN  LanguageOfSignature(context.function_signatures[func_name], position, context)

(* variant: the annotation rule alone decides *)
ResolveLanguageByAnnotation(m, context) ==
    IF m.type_annotation # <<>>
    THEN extract_language_from_annotation("type", m.type_annotation[1], context)
    ELSE None

ResolveLanguage(m, context) ==
    IF m.type_annotation # <<>>
    THEN LET lang == extract_language_from_annotation("type", m.type_annotation[1], context)
             type_text == m.type_annotation[1]
         IN  IF lang # None THEN lang
             ELSE IF IsPlainName(type_text) /\ type_text.base[1] \in DOMAIN context.type_aliases
                  THEN context.type_aliases[type_text.base[1]]
                  ELSE None
    ELSE IF m.func_name # None
         THEN infer_language_from_function_call(m.func_name, m, context)
         ELSE None

extract_template_info(m, source, context) ==
    LET node == m.string
        start_text == Utf8Text(node.children[1], source)
        extracted == extract_content_and_interpolations(node, source)
    IN  [ content |-> extracted.content,
          raw_content |-> Utf8Text(node, source),
          variable_name |-> m.var_name,
          function_name |-> m.func_name,
          language |-> ResolveLanguage(m, context),
          location |-> LocationOf(source, node.start_byte, node.end_byte),
          expressions |-> extracted.expressions,
          flags |-> parse_string_flags(start_text) ]

(* the matches of the four query patterns, in document order and, for one *)
(* node, in pattern order                                                  *)
Match(node, var, type, func, args, index) ==
    [ string |-> node, var_name |-> var, type_annotation |-> type,
      func_name |-> func, arguments |-> args, index |-> index ]

CallMatches(call, callOff, escDirect) ==
    Flatten([j \in 1..Len(call.arguments) |->
        IF call.arguments[j].kind = "string"
        THEN << Match(StringNode(call.arguments[j], ArgOffset(call, callOff, j), escDirect),
                      None, <<>>, call.function, call.arguments, j) >>
        ELSE <<>>])

StmtMatches(stmt, off, escDirect) ==
    CASE stmt.kind = "expression_statement" /\ stmt.expr.kind = "string" ->
           << Match(StringNode(stmt.expr, off, escDirect), None, <<>>, None, <<>>, 0) >>
      [] stmt.kind = "expression_statement" /\ stmt.expr.kind = "call" ->
           CallMatches(stmt.expr, off, escDirect)
      [] stmt.kind = "assignment" /\ stmt.right.kind = "string" ->
           LET node == StringNode(stmt.right, off + Len(AssignmentPrefix(stmt)), escDirect)
           IN  (IF stmt.type # <<>>
                THEN << Match(node, stmt.left, stmt.type, None, <<>>, 0) >>
                ELSE <<>>)
               \o << Match(node, stmt.left, <<>>, None, <<>>, 0) >>
      [] stmt.kind = "assignment" /\ stmt.right.kind = "call" ->
           CallMatches(stmt.right, off + Len(AssignmentPrefix(stmt)), escDirect)
      [] OTHER -> <<>>

QueryMatches(doc, escDirect) ==
    Flatten([i \in 1..Len(doc) |-> StmtMatches(doc[i], StmtOffset(doc, i), escDirect)])

IsTemplateStart(start_text) ==
    StartsWith(start_text, <<"t">>) \/ StartsWith(start_text, <<"T">>)

RECURSIVE ProcessMatches(_, _, _, _, _)
ProcessMatches(matches, processed_nodes, templates, source, context) ==
    IF matches = <<>> THEN templates
    ELSE LET m == Head(matches)
             node == m.string
             start_text == Utf8Text(node.children[1], source)
         IN  IF node.id \in processed_nodes
             THEN ProcessMatches(Tail(matches), processed_nodes, templates, source, context)
             ELSE IF IsTemplateStart(start_text)
             THEN ProcessMatches(Tail(matches), processed_nodes \cup {node.id},
                                 Append(templates, extract_template_info(m, source, context)),
                                 source, context)
             ELSE ProcessMatches(Tail(matches), processed_nodes, templates, source, context)

find_strings_with_query(doc, source, context, escDirect) ==
    ProcessMatches(QueryMatches(doc, escDirect), {}, <<>>, source, context)

(* cursor.matches(..) for a build of the query library that yields the    *)
(* matches of one string node in the given order: the two alternatives of  *)
(* an assignment match the string on the right of an annotated assignment  *)
Reverse(ms) == [i \in 1..Len(ms) |-> ms[Len(ms) + 1 - i]]

(* variant: the alternative without the type capture always comes first *)
OrderedMatchesUntypedFirst(ms, order) == Reverse(ms)

OrderedMatches(ms, order) == IF order = "pattern" THEN ms ELSE Reverse(ms)

StmtMatchesInOrder(stmt, off, order) ==
    IF stmt.kind = "assignment" /\ stmt.right.kind = "string"
    THEN OrderedMatches(StmtMatches(stmt, off, FALSE), order)
    ELSE StmtMatches(stmt, off, FALSE)

QueryMatchesInOrder(doc, order) ==
    Flatten([i \in 1..Len(doc) |-> StmtMatchesInOrder(doc[i], StmtOffset(doc, i), order)])

(* variant: the context of the call before is kept and added to *)
NewContextKept(previous) == previous

NewContext(previous) == ModuleContextDefault

find_template_strings(doc, previous, escDirect) ==
    LET source == SourceOf(doc)
        context == collect_module_context(doc, NewContext(previous))
    IN  [ context |-> context,
          templates |-> find_strings_with_query(doc, source, context, escDirect) ]

(* ---------------------------------------------------------------------- *)
(* highlighter.rs                                                          *)
(* ---------------------------------------------------------------------- *)
LanguageConfigs == {"html", "css", "javascript", "js", "json"}

HighlightedRange(s, e, name) == [start_byte |-> s, end_byte |-> e, highlight_name |-> name]

(* content[search_start..].find("{}"), repeated from past each hit *)
RECURSIVE SentinelPositions(_, _)
SentinelPositions(content, search_start) ==
    LET hits == {i \in search_start..(Len(content) - 2) :
                   content[i + 1] = LB /\ content[i + 2] = RB}
    IN  IF hits = {} THEN <<>>
        ELSE LET pos == CHOOSE i \in hits : \A j \in hits : i <= j
             IN  <<pos>> \o SentinelPositions(content, pos + 2)

(* Vec::sort_by_key(|r| r.start_byte): a stable sort *)
RECURSIVE InsertByStart(_, _)
InsertByStart(sorted, r) ==
    IF sorted = <<>> THEN <<r>>
    ELSE IF Last(sorted).start_byte <= r.start_byte THEN Append(sorted, r)
    ELSE Append(InsertByStart(SubSeq(sorted, 1, Len(sorted) - 1), r), Last(sorted))

RECURSIVE SortByStart(_)
SortByStart(rs) ==
    IF rs = <<>> THEN <<>>
    ELSE InsertByStart(SortByStart(SubSeq(rs, 1, Len(rs) - 1)), Last(rs))

(* grammar_ranges: what the embedded grammar's highlight query yields *)
highlight_template(template, grammar_ranges) ==
    IF template.language = None \/ template.language \notin LanguageConfigs
    THEN [ok |-> FALSE, ranges |-> <<>>]
    ELSE LET sentinels == SentinelPositions(template.content, 0)
         IN  [ ok |-> TRUE,
               ranges |-> SortByStart(grammar_ranges \o
                   [i \in 1..Len(sentinels) |->
                       HighlightedRange(sentinels[i], sentinels[i] + 2,
                                        "variable.parameter")]) ]

calculate_template_content_offset(raw_content) ==
    IF StartsWith(raw_content, <<"t", QUOTE, QUOTE, QUOTE>>) THEN 4
    ELSE IF StartsWith(raw_content, <<"t", "r", QUOTE, QUOTE, QUOTE>>) THEN 5
    ELSE IF StartsWith(raw_content, <<"t", QUOTE>>) THEN 2
    ELSE IF StartsWith(raw_content, <<"t", "r", QUOTE>>) THEN 3
    ELSE 0

RECURSIVE ExprEnd(_, _)
ExprEnd(actual, expr_end) ==
    IF expr_end < Len(actual) /\ actual[expr_end + 1] # RB
    THEN ExprEnd(actual, expr_end + 1)
    ELSE IF expr_end < Len(actual) THEN expr_end + 1 ELSE expr_end

RECURSIVE WalkToPosition(_, _, _, _, _)
WalkToPosition(template_content, actual, position, template_idx, actual_idx) ==
    IF ~(template_idx < position /\ actual_idx < Len(actual)) THEN actual_idx
    ELSE IF /\ template_idx + 1 < Len(template_content)
            /\ template_content[template_idx + 1] = LB
            /\ template_content[template_idx + 2] = RB
         THEN WalkToPosition(template_content, actual, position, template_idx + 2,
                             IF actual[actual_idx + 1] = LB
                             THEN ExprEnd(actual, actual_idx + 1)
                             ELSE actual_idx)
         ELSE WalkToPosition(template_content, actual, position,
                             template_idx + 1, actual_idx + 1)

(* variant: a newline resets the column and leaves the line as it was *)
LineColAfterSameLine(actual, actual_idx, start_line, start_col) ==
    LET nls == {i \in 1..actual_idx : actual[i] = NL}
        lastNl == IF nls = {} THEN 0 ELSE CHOOSE i \in nls : \A j \in nls : j <= i
    IN  [ line |-> start_line,
          col |-> IF nls = {} THEN start_col + actual_idx ELSE actual_idx - lastNl ]

LineColAfter(actual, actual_idx, start_line, start_col) ==
    LET nls == {i \in 1..actual_idx : actual[i] = NL}
        lastNl == IF nls = {} THEN 0 ELSE CHOOSE i \in nls : \A j \in nls : j <= i
    IN  [ line |-> start_line + Cardinality(nls),
          col |-> IF nls = {} THEN start_col + actual_idx ELSE actual_idx - lastNl ]

map_template_position_to_document(template_content, actual_content, position_in_template, template_start_line, template_start_col, prefix_len) ==
    LineColAfter(actual_content,
                 WalkToPosition(template_content, actual_content,
                                position_in_template, 0, 0),
                 template_start_line, template_start_col + prefix_len)

token_type_to_index(highlight_name) ==
    CASE highlight_name = "keyword" -> 15
      [] highlight_name \in {"function", "function.builtin"} -> 12
      [] highlight_name \in {"variable", "variable.builtin", "variable.parameter"} -> 8
      [] highlight_name \in {"string", "string.special"} -> 18
      [] highlight_name = "number" -> 19
      [] highlight_name = "comment" -> 17
      [] highlight_name \in {"type", "type.builtin"} -> 1
      [] highlight_name \in {"class", "constructor"} -> 2
      [] highlight_name = "property" -> 9
      [] highlight_name = "tag" -> 2
      [] highlight_name = "attribute" -> 9
      [] highlight_name = "operator" -> 21
      [] highlight_name \in {"punctuation", "punctuation.bracket",
                             "punctuation.delimiter"} -> 21
      [] OTHER -> 8

(* unsigned arithmetic cast to u32: a negative difference wraps.  TLC's    *)
(* integers are 32-bit, so the wrap is modelled at width 16; every         *)
(* non-wrapped value of the model is far below 2^16.                        *)
U32(x) == x % (2 ^ 16)

ExpressionToken(expr) ==
    << U32(expr.location.start_line - 1),
       U32(expr.location.start_column - 1),
       U32(expr.location.end_column - expr.location.start_column),
       token_type_to_index("variable.parameter"),
       0 >>

RangeToken(range, template) ==
    LET prefix_len == calculate_template_content_offset(template.raw_content)
        suffix_len == IF template.flags.is_triple THEN 3 ELSE 1
        actual_content == Slice(template.raw_content, prefix_len,
                                Len(template.raw_content) - suffix_len)
        at == map_template_position_to_document(
                  template.content, actual_content, range.start_byte,
                  template.location.start_line - 1,
                  template.location.start_column - 1, prefix_len)
        length == range.end_byte - range.start_byte
    IN  IF range.highlight_name = "variable.parameter" \/ ~(length > 0) THEN <<>>
        ELSE << << U32(at.line), U32(at.col), U32(length),
                   token_type_to_index(range.highlight_name), 0 >> >>

RangeTokens(ranges, template) ==
    Flatten([i \in 1..Len(ranges) |-> RangeToken(ranges[i], template)])

to_lsp_tokens(ranges, template) ==
    [i \in 1..Len(template.expressions) |-> ExpressionToken(template.expressions[i])]
    \o RangeTokens(ranges, template)

(* end_column - start_column is a usize subtraction: where the expression  *)
(* ends on a later line at a smaller column, a build with overflow checks  *)
(* panics and a build without them wraps                                   *)
ExpressionSpanUnderflows(template) ==
    \E i \in 1..Len(template.expressions) :
        template.expressions[i].location.end_column
            < template.expressions[i].location.start_column

(* ---------------------------------------------------------------------- *)
(* the language server: t-linter-lsp/src/lib.rs                            *)
(* ---------------------------------------------------------------------- *)
TOKEN_TYPE_MACRO == 14

TOKEN_MODIFIER_NONE == 0

(* text.lines().nth(n).unwrap_or("").len(): the bytes of the n-th line,    *)
(* 0-based, without its newline; 0 where the text has no such line         *)
LineLen(text, n) ==
    LET nls == {i \in 1..Len(text) : text[i] = NL}
        nth(k) == CHOOSE i \in nls : Cardinality({j \in nls : j < i}) = k - 1
        first == IF n = 0 THEN 1 ELSE nth(n) + 1
        last == IF n < Cardinality(nls) THEN nth(n + 1) - 1 ELSE Len(text)
    IN  IF n > Cardinality(nls) THEN 0 ELSE last - first + 1

(* one token from the start column, whatever the lines of the template *)
MacroTokensOneLine(template, text) ==
    << << U32(template.location.start_line - 1),
          U32(template.location.start_column - 1),
          U32(template.location.end_column - template.location.start_column),
          14, 0 >> >>

(* the tokens of a template without a language *)
MacroTokens(template, text) ==
    LET start_line == U32(template.location.start_line - 1)
        start_col == U32(template.location.start_column - 1)
        end_line == U32(template.location.end_line - 1)
        end_col == U32(template.location.end_column - 1)
    IN  IF start_line = end_line
        THEN << <<start_line, start_col, U32(end_col - start_col),
                  TOKEN_TYPE_MACRO, TOKEN_MODIFIER_NONE>> >>
        ELSE << <<start_line, start_col, U32(LineLen(text, start_line) - start_col),
                  TOKEN_TYPE_MACRO, TOKEN_MODIFIER_NONE>> >>
             \o [i \in 1..(end_line - start_line - 1) |->
                   <<start_line + i, 0, U32(LineLen(text, start_line + i)),
                     TOKEN_TYPE_MACRO, TOKEN_MODIFIER_NONE>>]
             \o << <<end_line, 0, end_col, TOKEN_TYPE_MACRO, TOKEN_MODIFIER_NONE>> >>

(* the token of a template whose highlighting failed *)
FailureToken(template) ==
    LET start_line == U32(template.location.start_line - 1)
        start_col == U32(template.location.start_column - 1)
        end_col == U32(template.location.end_column - 1)
    IN  <<start_line, start_col, U32(end_col - start_col),
          TOKEN_TYPE_MACRO, TOKEN_MODIFIER_NONE>>

(* end_col - start_col is a u32 subtraction *)
FailureTokenUnderflows(template) ==
    template.location.end_column < template.location.start_column

(* highlight_template's loop over the highlight events: a Source event     *)
(* yields one range for each highlight that is active around it            *)
StackedRanges(events) ==
    Flatten([i \in 1..Len(events) |->
               [j \in 1..Len(events[i].active_highlights) |->
                  HighlightedRange(events[i].start, events[i].end,
                                   events[i].active_highlights[j])]])

(* what the embedded grammar does with a template: the grammar's parse or  *)
(* its highlight query fails, or it yields ranges                          *)
HighlightOutcome(template, outcome) ==
    IF outcome.fails THEN [ok |-> FALSE, ranges |-> <<>>]
    ELSE highlight_template(template, StackedRanges(outcome.events))

(* the body of the loop over the templates *)
TemplateTokens(template, text, outcome) ==
    IF template.language = None THEN MacroTokens(template, text)
    ELSE LET result == HighlightOutcome(template, outcome)
         IN  IF result.ok THEN to_lsp_tokens(result.ranges, template)
             ELSE <<FailureToken(template)>>

(* a subtraction of the loop body underflows *)
TemplateUnderflows(template, outcome) ==
    /\ template.language # None
    /\ IF HighlightOutcome(template, outcome).ok
       THEN ExpressionSpanUnderflows(template)
       ELSE FailureTokenUnderflows(template)

(* all_tokens.sort_by(line, then column): a stable sort *)
RECURSIVE InsertByPosition(_, _)
InsertByPosition(sorted, t) ==
    IF sorted = <<>> THEN <<t>>
    ELSE IF Last(sorted)[1] < t[1] \/ (Last(sorted)[1] = t[1] /\ Last(sorted)[2] <= t[2])
    THEN Append(sorted, t)
    ELSE Append(InsertByPosition(SubSeq(sorted, 1, Len(sorted) - 1), t), Last(sorted))

RECURSIVE SortByPosition(_)
SortByPosition(ts) ==
    IF ts = <<>> THEN <<>>
    ELSE InsertByPosition(SortByPosition(SubSeq(ts, 1, Len(ts) - 1)), Last(ts))

(* all_tokens.dedup_by(all five fields equal): removes a token equal to   *)
(* the one kept just before it                                             *)
RECURSIVE DedupBy(_)
DedupBy(ts) ==
    IF Len(ts) <= 1 THEN ts
    ELSE LET kept == DedupBy(SubSeq(ts, 1, Len(ts) - 1))
         IN  IF Last(kept) = Last(ts) THEN kept ELSE Append(kept, Last(ts))

(* one step of convert_to_semantic_tokens' loop *)
DeltaStartRelative(line, start, prev_line, prev_start) == U32(start - prev_start)

DeltaStart(line, start, prev_line, prev_start) ==
    IF U32(line - prev_line) = 0 THEN U32(start - prev_start) ELSE start

RECURSIVE ConvertFrom(_, _, _)
ConvertFrom(ts, prev_line, prev_start) ==
    IF ts = <<>> THEN <<>>
    ELSE LET t == Head(ts)
         IN  << [ delta_line |-> U32(t[1] - prev_line),
                  delta_start |-> DeltaStart(t[1], t[2], prev_line, prev_start),
                  length |-> t[3],
                  token_type |-> t[4],
                  token_modifiers_bitset |-> t[5] ] >>
             \o ConvertFrom(Tail(ts), t[1], t[2])

convert_to_semantic_tokens(ts) == ConvertFrom(ts, 0, 0)

(* line - prev_line or start - prev_start underflows *)
RECURSIVE ConvertUnderflowsFrom(_, _, _)
ConvertUnderflowsFrom(ts, prev_line, prev_start) ==
    /\ ts # <<>>
    /\ \/ Head(ts)[1] < prev_line
       \/ Head(ts)[1] = prev_line /\ Head(ts)[2] < prev_start
       \/ ConvertUnderflowsFrom(Tail(ts), Head(ts)[1], Head(ts)[2])

(* the messages logged for the templates up to the n-th: one for each     *)
(* template whose highlighting failed                                      *)
HighlightFailures(templates, outcomes, n) ==
    LET failed(k) == /\ templates[k].language # None
                     /\ ~HighlightOutcome(templates[k], outcomes[k]).ok
    IN  Flatten([k \in 1..n |->
                   IF failed(k)
                   THEN <<[message |-> "Failed to highlight template", template |-> k]>>
                   ELSE <<>>])

(* generate_semantic_tokens on the cached text, found being what          *)
(* find_template_strings returns for it: Err where the text is not cached  *)
(* or find_template_strings returns Err, a panic where a subtraction       *)
(* underflows in a build with overflow checks                              *)
generate_semantic_tokens(cached, found, host_fails, outcomes, overflow_checks) ==
    IF cached = <<>> \/ host_fails
    THEN [kind |-> "Err", all_tokens |-> <<>>, data |-> <<>>, log |-> <<>>]
    ELSE LET text == SourceOf(cached[1])
             n == Len(found.templates)
             all_tokens == DedupBy(SortByPosition(Flatten(
                 [k \in 1..n |-> TemplateTokens(found.templates[k], text, outcomes[k])])))
             underflowing == {k \in 1..n : TemplateUnderflows(found.templates[k], outcomes[k])}
             first == CHOOSE k \in underflowing : \A j \in underflowing : k <= j
         IN  IF overflow_checks /\ underflowing # {}
             THEN [kind |-> "panic", all_tokens |-> <<>>, data |-> <<>>,
                   log |-> HighlightFailures(found.templates, outcomes, first)]
             ELSE IF overflow_checks /\ ConvertUnderflowsFrom(all_tokens, 0, 0)
             THEN [kind |-> "panic", all_tokens |-> <<>>, data |-> <<>>,
                   log |-> HighlightFailures(found.templates, outcomes, n)]
             ELSE [kind |-> "Ok", all_tokens |-> all_tokens,
                   data |-> convert_to_semantic_tokens(all_tokens),
                   log |-> HighlightFailures(found.templates, outcomes, n)]

(* ---------------------------------------------------------------------- *)
(* state machine                                                           *)
(* ---------------------------------------------------------------------- *)
HtmlAnnotation == Subscript(<<"Annotated">>, <<"Template">>, Str("html"))

TemplateDocuments(n) ==
    { << Assignment("x", <<HtmlAnnotation>>, StringLiteral(op, ps)) >> :
        op \in Openers,
        ps \in {q \in SeqsUpTo(PieceKinds, n) : \A i \in 1..Len(q) : q[i] # "nl"} }
    \cup
    { << Assignment("x", <<HtmlAnnotation>>, StringLiteral(op, ps)) >> :
        op \in {o \in Openers : IsTripleOpener(o)},
        ps \in SeqsUpTo(PieceKinds, n) }

SpanLengths == {1, 2}

GrammarRanges(content) ==
    {rs \in SeqsUpTo({HighlightedRange(s, s + n, "tag") :
                        s \in 0..(Len(content) - 1), n \in SpanLengths},
                     MaxSpans) :
        /\ \A i \in 1..Len(rs) : rs[i].end_byte <= Len(content)
        /\ \A i \in 1..(Len(rs) - 1) : rs[i].start_byte <= rs[i + 1].start_byte}

(* statements of the documents whose language resolution is checked *)
AnnAlias == Subscript(<<"Ann">>, <<"Tmpl">>, Str("html"))
AnnSqlHalfAlias == Subscript(<<"Ann">>, <<"Template">>, Str("sql"))
AnnSql == Subscript(<<"Annotated">>, <<"Template">>, Str("sql"))
AnnIdentSlot == Subscript(<<"Annotated">>, <<"Template">>, Ident("html"))
PlainLiteral(op) == StringLiteral(op, <<"a">>)
TOpener == <<"t", QUOTE>>

ImportStatements ==
    { ImportFrom(<<"typing">>, <<"Annotated">>, "Ann"),
      ImportFrom(<<"string", "templatelib">>, <<"Template">>, "Tmpl") }

AliasStatements ==
    { TypeAliasStmt("html", HtmlAnnotation),
      Assignment("sql", <<Name("TypeAlias")>>, SubscriptExpr(AnnSql)) }

FunctionStatements ==
    { FunctionDef("f", <<TypedParameter(Name("html"))>>),
      FunctionDef("f", <<TypedParameter(AnnSqlHalfAlias)>>),
      FunctionDef("f", <<UntypedParameter, TypedParameter(AnnSql)>>) }

AnnotatedTemplateStatements ==
    { Assignment("x", <<ann>>, PlainLiteral(TOpener)) :
        ann \in {HtmlAnnotation, AnnAlias, AnnIdentSlot, Name("html"), Name("sql")} }

DocumentOpeners ==
    { <<"t", QUOTE>>, <<"T", QUOTE>>, <<"r", "t", QUOTE>>, <<"R", "t", QUOTE>>,
      <<"f", QUOTE>>, <<QUOTE>> }

(* string literals of every opener in the three places the query looks at *)
PrefixedStatements ==
    { Assignment("y", <<>>, PlainLiteral(op)) : op \in DocumentOpeners }
    \cup { ExpressionStmt(PlainLiteral(op)) : op \in DocumentOpeners }
    \cup { ExpressionStmt(Call("f", <<PlainLiteral(op)>>)) : op \in DocumentOpeners }

CallStatements ==
    { ExpressionStmt(PlainLiteral(TOpener)),
      ExpressionStmt(Call("f", <<PlainLiteral(TOpener)>>)),
      ExpressionStmt(Call("f", <<Integer, PlainLiteral(TOpener)>>)) }

Statements ==
    ImportStatements \cup AliasStatements \cup FunctionStatements
    \cup AnnotatedTemplateStatements \cup CallStatements

ParserStatements ==
    { ImportFrom(<<"typing">>, <<"Annotated">>, "Ann"),
      ImportFrom(<<"string", "templatelib">>, <<"Template">>, "Tmpl"),
      TypeAliasStmt("html", HtmlAnnotation),
      FunctionDef("f", <<TypedParameter(Name("html"))>>),
      Assignment("x", <<AnnAlias>>, PlainLiteral(TOpener)),
      Assignment("x", <<Name("html")>>, PlainLiteral(TOpener)),
      ExpressionStmt(Call("f", <<PlainLiteral(TOpener)>>)) }

(* the server after TLinterLanguageServer::new: nothing cached, nothing requested *)
URIs == {"a.py", "b.py"}

NoResponse ==
    [kind |-> "none", uri |-> None, logged |-> <<>>, all_tokens |-> <<>>, data |-> <<>>]

Unlocked == [owner |-> 0, waiters |-> <<>>]

(* the query cursor yields the matches of one node in the order of the    *)
(* patterns of the query, or in the opposite order                         *)
PatternOrder == "pattern"

MatchOrders == {PatternOrder, "reversed"}

FreshState ==
    /\ pc = "edit"
    /\ module_context = ModuleContextDefault
    /\ previous_context = ModuleContextDefault
    /\ template_list = <<>>
    /\ highlight_ranges = <<>>
    /\ lsp_tokens = <<>>
    /\ document_cache = [uri \in URIs |-> <<>>]
    /\ response = NoResponse
    /\ handlers = <<>>
    /\ mutexes = [name \in {"parser", "highlighter"} |-> Unlocked]

Fresh == FreshState /\ match_order = PatternOrder

Init == Fresh /\ document \in TemplateDocuments(MaxProjectedPieces)

InitExtract == Fresh /\ document \in TemplateDocuments(MaxPieces)

InitDoc == Fresh /\ document \in SeqsUpTo(Statements, MaxStatements)

InitPrefix == Fresh /\ document \in SeqsUpTo(PrefixedStatements, MaxStatements)

(* one function definition and one call of it *)
ParameterKinds ==
    { TypedParameter(HtmlAnnotation), TypedDefaultParameter(AnnSql),
      UntypedParameter, DefaultParameter }

ArgumentKinds == {Integer, ListArgument, KeywordArgument, PlainLiteral(TOpener)}

CallDocuments ==
    { << FunctionDef("f", ps), ExpressionStmt(Call("f", args)) >> :
        ps \in SeqsUpTo(ParameterKinds, MaxParameters),
        args \in SeqsUpTo(ArgumentKinds, MaxArguments) }

InitCall == Fresh /\ document \in CallDocuments

(* the document of a session with the server: templates without a        *)
(* language, with a registered one and with one that has no grammar, on   *)
(* one line and on several                                                 *)
AnnYaml == Subscript(<<"Annotated">>, <<"Template">>, Str("yaml"))

TripleOpener == <<"t", QUOTE, QUOTE, QUOTE>>

SessionStatements ==
    { ExpressionStmt(Call("f", <<PlainLiteral(TOpener), PlainLiteral(TOpener)>>)),
      Assignment("x", <<>>, StringLiteral(TripleOpener, <<"a", "nl", "a", "nl">>)),
      Assignment("x", <<HtmlAnnotation>>, PlainLiteral(TOpener)),
      Assignment("x", <<AnnYaml>>, StringLiteral(TripleOpener, <<"a", "nl", "a">>)) }

InitSession == Fresh /\ document \in SeqsUpTo(SessionStatements, MaxSessionStatements)

(* documents with imports under other names, type aliases in both forms  *)
(* and a template annotated with the alias                                 *)
AliasDocumentStatements ==
    { ImportFrom(<<"typing">>, <<"Annotated">>, "Ann"),
      ImportFrom(<<"string", "templatelib">>, <<"Template">>, "Tmpl"),
      TypeAliasStmt("H", AnnAlias),
      Assignment("H", <<Name("TypeAlias")>>, SubscriptExpr(AnnAlias)),
      TypeAliasStmt("H", HtmlAnnotation),
      TypeAliasStmt("H", AnnIdentSlot),
      Assignment("x", <<Name("H")>>, PlainLiteral(TOpener)) }

InitAlias == Fresh /\ document \in SeqsUpTo(AliasDocumentStatements, MaxAliasStatements)

(* documents whose templates match one alternative of the query or two   *)
MatchStatements ==
    { Assignment("x", <<HtmlAnnotation>>, PlainLiteral(TOpener)),
      Assignment("x", <<Name("int")>>, PlainLiteral(TOpener)),
      Assignment("y", <<>>, PlainLiteral(TOpener)),
      ExpressionStmt(PlainLiteral(TOpener)),
      ExpressionStmt(Call("f", <<PlainLiteral(TOpener), PlainLiteral(TOpener)>>)) }

InitMatch ==
    /\ FreshState
    /\ match_order \in MatchOrders
    /\ document \in SeqsUpTo(MatchStatements, MaxMatchStatements)

(* the document of a request for tokens: one template with              *)
(* interpolations, on one line or with an expression over two lines,       *)
(* without a language, with a registered one or with one that has no       *)
(* grammar                                                                 *)
TokenPieces == {"a", "ix", "iml"}

TokenAnnotations == { <<>>, <<HtmlAnnotation>>, <<AnnYaml>> }

TokenDocuments ==
    { << Assignment("x", ann, StringLiteral(TOpener, ps)) >> :
        ann \in TokenAnnotations, ps \in SeqsUpTo(TokenPieces, MaxTokenPieces) }

InitTokens == Fresh /\ document \in TokenDocuments

(* the highlight events of the embedded grammar: disjoint Source events   *)
(* in order, each inside the highlights that are active around it          *)
SourceEvent(s, e, stack) == [start |-> s, end |-> e, active_highlights |-> stack]

HighlightStacks == { <<"tag">>, <<"string", "embedded", "string">> }

HighlightEvents(content) ==
    {evs \in SeqsUpTo({SourceEvent(s, s + n, stack) :
                          s \in 0..(Len(content) - 1), n \in SpanLengths,
                          stack \in HighlightStacks},
                      MaxEvents) :
        /\ \A i \in 1..Len(evs) : evs[i].end <= Len(content)
        /\ \A i \in 1..(Len(evs) - 1) : evs[i].end <= evs[i + 1].start}

GrammarOutcomes(template) ==
    IF template.language \in LanguageConfigs
    THEN {[fails |-> TRUE, events |-> <<>>]}
         \cup {[fails |-> FALSE, events |-> evs] : evs \in HighlightEvents(template.content)}
    ELSE {[fails |-> FALSE, events |-> <<>>]}

RECURSIVE OutcomesFor(_)
OutcomesFor(templates) ==
    IF templates = <<>> THEN {<<>>}
    ELSE {<<first>> \o rest : first \in GrammarOutcomes(Head(templates)),
                              rest \in OutcomesFor(Tail(templates))}

InitParser == Fresh /\ document \in SeqsUpTo(ParserStatements, MaxParserStatements)

Parse ==
    /\ pc = "edit"
    /\ \E escDirect \in BOOLEAN :
          LET found == find_template_strings(document, module_context, escDirect)
          IN  /\ module_context' = found.context
              /\ template_list' = found.templates
    /\ previous_context' = module_context
    /\ pc' = "parsed"
    /\ UNCHANGED <<document, highlight_ranges, lsp_tokens, match_order>>
    /\ UNCHANGED serverVars

Highlight ==
    /\ pc = "parsed"
    /\ template_list # <<>>
    /\ \E g \in GrammarRanges(template_list[1].content) :
          LET result == highlight_template(template_list[1], g)
          IN  /\ highlight_ranges' = result.ranges
              /\ pc' = IF result.ok THEN "highlighted" ELSE "failed"
    /\ UNCHANGED <<document, module_context, previous_context, template_list, lsp_tokens,
                   match_order>>
    /\ UNCHANGED serverVars

Project ==
    /\ pc = "highlighted"
    /\ \E overflow_checks \in BOOLEAN :
          IF overflow_checks /\ ExpressionSpanUnderflows(template_list[1])
          THEN pc' = "panicked" /\ lsp_tokens' = lsp_tokens
          ELSE /\ pc' = "projected"
               /\ lsp_tokens' = to_lsp_tokens(highlight_ranges, template_list[1])
    /\ UNCHANGED <<document, module_context, previous_context, template_list,
                   highlight_ranges, match_order>>
    /\ UNCHANGED serverVars

(* find_template_strings with the matches of the string query yielded in  *)
(* match_order                                                             *)
ParseMatches ==
    /\ pc = "edit"
    /\ LET source == SourceOf(document)
           context == collect_module_context(document, NewContext(module_context))
       IN  /\ module_context' = context
           /\ template_list' = ProcessMatches(QueryMatchesInOrder(document, match_order),
                                              {}, <<>>, source, context)
    /\ previous_context' = module_context
    /\ pc' = "parsed"
    /\ UNCHANGED <<document, highlight_ranges, lsp_tokens, match_order>>
    /\ UNCHANGED serverVars

(* the same parser object is handed the next document *)
NextDocument ==
    /\ pc = "parsed"
    /\ document' \in SeqsUpTo(ParserStatements, MaxParserStatements)
    /\ pc' = "edit"
    /\ template_list' = <<>>
    /\ previous_context' = module_context
    /\ UNCHANGED <<module_context, highlight_ranges, lsp_tokens, match_order>>
    /\ UNCHANGED serverVars

(* did_open: the text is cached, then analyze_document parses it *)
DidOpen ==
    /\ pc = "edit"
    /\ \E uri \in URIs :
          LET found == find_template_strings(document, module_context, FALSE)
          IN  /\ document_cache' = [document_cache EXCEPT ![uri] = <<document>>]
              /\ module_context' = found.context
              /\ template_list' = found.templates
    /\ previous_context' = module_context
    /\ UNCHANGED <<pc, document, highlight_ranges, lsp_tokens, match_order>>
    /\ UNCHANGED <<response, handlers, mutexes>>

(* did_close *)
DidClose ==
    /\ pc = "edit"
    /\ \E uri \in URIs : document_cache' = [document_cache EXCEPT ![uri] = <<>>]
    /\ UNCHANGED coreVars
    /\ UNCHANGED <<response, handlers, mutexes>>

(* an answer that surfaces Err as a protocol error *)
ResponseProtocolError(uri, result) ==
    [ kind |-> IF result.kind = "Ok" THEN "tokens" ELSE "error",
      uri |-> uri,
      logged |-> <<>>,
      all_tokens |-> result.all_tokens,
      data |-> result.data ]

(* the answer of semantic_tokens_full: Ok(Some(tokens)) where              *)
(* generate_semantic_tokens returns Ok, a logged message and Ok(None)      *)
(* where it returns Err                                                    *)
Response(uri, result) ==
    [ kind |-> CASE result.kind = "Ok" -> "tokens"
                 [] result.kind = "Err" -> "null"
                 [] OTHER -> "panic",
      uri |-> uri,
      logged |-> IF result.kind = "Err"
                 THEN <<[message |-> "Token generation failed", template |-> 0]>>
                 ELSE result.log,
      all_tokens |-> result.all_tokens,
      data |-> result.data ]

SemanticTokensFull ==
    /\ pc = "edit"
    /\ \E uri \in URIs, host_fails \in BOOLEAN :
          LET cached == document_cache[uri]
          IN  IF cached = <<>> \/ host_fails
              THEN /\ response' = Response(uri,
                          generate_semantic_tokens(cached, <<>>, host_fails, <<>>, FALSE))
                   /\ UNCHANGED <<pc, module_context, template_list>>
              ELSE \E found \in {find_template_strings(cached[1], module_context, FALSE)} :
                      \E outcomes \in OutcomesFor(found.templates),
                         overflow_checks \in BOOLEAN :
                          LET result == generate_semantic_tokens(cached, found, host_fails,
                                            outcomes, overflow_checks)
                          IN  /\ response' = Response(uri, result)
                              /\ pc' = IF result.kind = "panic" THEN "panicked" ELSE pc
                              /\ module_context' = found.context
                              /\ template_list' = found.templates
    /\ previous_context' = module_context
    /\ UNCHANGED <<document, highlight_ranges, lsp_tokens, match_order>>
    /\ UNCHANGED <<document_cache, handlers, mutexes>>

(* the texts a client sends: one whose template is highlighted, one whose *)
(* templates have no language                                              *)
ClientTexts ==
    { << Assignment("x", <<HtmlAnnotation>>, PlainLiteral(TOpener)) >>,
      << ExpressionStmt(Call("f", <<PlainLiteral(TOpener), PlainLiteral(TOpener)>>)) >> }

(* a handler future: the method, its parameters, and where it stands *)
Handler(method, uri, content_changes, at) ==
    [method |-> method, uri |-> uri, content_changes |-> content_changes, at |-> at,
     text |-> <<>>, templates |-> <<>>, languages |-> <<>>, outcomes |-> <<>>,
     answer |-> "none", lines |-> <<>>, cached |-> <<>>]

(* a cache that keeps the text it has *)
CacheKeepsOldest(cache, method, uri, content_changes) ==
    IF method \in {"did_open", "did_change"} /\ cache[uri] = <<>>
    THEN [cache EXCEPT ![uri] = <<Head(content_changes)>>]
    ELSE cache

(* what did_open, did_change and did_close do to the cache: did_open      *)
(* inserts its text, did_change the text of its first content change, if   *)
(* it has one, did_close removes the entry                                 *)
CacheAfter(cache, method, uri, content_changes) ==
    CASE method = "did_close" -> [cache EXCEPT ![uri] = <<>>]
      [] method \in {"did_open", "did_change"} /\ content_changes # <<>> ->
             [cache EXCEPT ![uri] = <<Head(content_changes)>>]
      [] OTHER -> cache

(* one notification, its handler run to the end before the next arrives:  *)
(* the cache is updated and, where a text was inserted, analyze_document   *)
(* parses the text now cached for the URI                                  *)
Notify ==
    /\ pc = "edit"
    /\ Len(handlers) < MaxNotifications
    /\ \E uri \in URIs :
          \E notification \in
                {Handler("did_open", uri, <<text>>, "done") : text \in ClientTexts}
                \cup {Handler("did_change", uri, changes, "done") :
                         changes \in SeqsUpTo(ClientTexts, MaxChanges)}
                \cup {Handler("did_close", uri, <<>>, "done")} :
             /\ document_cache' = CacheAfter(document_cache, notification.method, uri,
                                             notification.content_changes)
             /\ handlers' = Append(handlers, notification)
             /\ IF notification.content_changes # <<>>
                THEN \E found \in {find_template_strings(document_cache'[uri][1],
                                                         module_context, FALSE)} :
                        /\ module_context' = found.context
                        /\ template_list' = found.templates
                ELSE UNCHANGED <<module_context, template_list>>
    /\ previous_context' = module_context
    /\ UNCHANGED <<pc, document, highlight_ranges, lsp_tokens, match_order>>
    /\ UNCHANGED <<response, mutexes>>

(* tokio's Mutex is fair: lock() takes a free mutex at once and queues    *)
(* behind the waiters otherwise; dropping the guard hands the mutex to the *)
(* first waiter                                                            *)
Lock(ms, name, id) ==
    IF ms[name].owner = 0 THEN [ms EXCEPT ![name].owner = id]
    ELSE [ms EXCEPT ![name].waiters = Append(@, id)]

Unlock(ms, name) ==
    IF ms[name].waiters = <<>> THEN [ms EXCEPT ![name] = Unlocked]
    ELSE [ms EXCEPT ![name] = [owner |-> Head(@.waiters), waiters |-> Tail(@.waiters)]]

(* some handlers lock the highlighter first *)
FirstLockAlternating(id) == IF id % 2 = 1 THEN "parser" ELSE "highlighter"

(* the mutex a handler locks first, and the one it locks while it holds   *)
(* the first: analyze_document and generate_semantic_tokens lock the       *)
(* parser, generate_semantic_tokens then locks the highlighter for each    *)
(* template with a language                                                *)
FirstLock(id) == "parser"

SecondLock(id) == IF FirstLock(id) = "parser" THEN "highlighter" ELSE "parser"

(* the URI of the concurrent requests *)
ServedURIs == {"a.py"}

(* the texts of the concurrent requests: those of ClientTexts and one      *)
(* with a template without a language on two lines and a highlighted       *)
(* template with an interpolation                                          *)
ServerTexts ==
    ClientTexts \cup
    { << Assignment("x", <<>>, StringLiteral(TripleOpener, <<"a", "nl", "a">>)),
         Assignment("x", <<HtmlAnnotation>>, StringLiteral(TOpener, <<"ix">>)) >> }

(* the records find_template_strings returns for a text *)
TemplatesOf(text) == find_template_strings(text, ModuleContextDefault, FALSE).templates

LanguagesOf(templates) == [k \in 1..Len(templates) |-> templates[k].language]

(* a handler is being polled: it has the parser and has not reached its    *)
(* next await.  The handler futures are polled one at a time, so no other  *)
(* handler moves and no request is taken up meanwhile                      *)
NoneRunning == \A id \in 1..Len(handlers) : handlers[id].at # "templates"

(* a request arrives and its handler is polled for the first time: it     *)
(* runs up to its first await.  did_open and did_change have cached their  *)
(* text by then, did_close has removed it and is finished, and every other *)
(* handler has read the text of its URI from the cache; it then waits for  *)
(* the parser, or, without a cached text, for its error message to be      *)
(* sent.  The record notes the templates of the text read, which the       *)
(* handler learns once it has the parser                                   *)
Arrive ==
    /\ pc = "edit"
    /\ Len(handlers) < MaxHandlers
    /\ NoneRunning
    /\ \E uri \in ServedURIs :
          \E request \in
                {Handler(method, uri, <<text>>, "start") :
                    method \in {"did_open", "did_change"}, text \in ServerTexts}
                \cup {Handler("semantic_tokens", uri, <<>>, "start"),
                      Handler("did_close", uri, <<>>, "start")} :
             LET id == Len(handlers) + 1
                 cache == CacheAfter(document_cache, request.method, uri,
                                     request.content_changes)
             IN  /\ document_cache' = cache
                 /\ CASE request.method = "did_close" ->
                           /\ handlers' = Append(handlers, [request EXCEPT !.at = "done"])
                           /\ UNCHANGED mutexes
                      [] request.method # "did_close" /\ cache[uri] = <<>> ->
                           /\ handlers' = Append(handlers, [request EXCEPT !.at = "logging"])
                           /\ UNCHANGED mutexes
                      [] OTHER ->
                           \E templates \in {TemplatesOf(cache[uri][1])} :
                              /\ handlers' = Append(handlers,
                                    [request EXCEPT !.at = "first_wait", !.text = cache[uri],
                                                    !.templates = templates,
                                                    !.languages = LanguagesOf(templates)])
                              /\ mutexes' = Lock(mutexes, FirstLock(id), id)
    /\ UNCHANGED <<coreVars, response>>

(* a handler got its first mutex: find_template_strings runs; the         *)
(* analysis then awaits its log message, the token request starts its      *)
(* loop over the templates                                                 *)
Entered ==
    /\ NoneRunning
    /\ \E id \in 1..Len(handlers) :
          /\ handlers[id].at = "first_wait"
          /\ mutexes[FirstLock(id)].owner = id
          /\ handlers' = [handlers EXCEPT ![id].at =
                             IF handlers[id].method = "semantic_tokens" THEN "templates"
                             ELSE "logging"]
    /\ UNCHANGED <<coreVars, document_cache, response, mutexes>>

(* the loop of generate_semantic_tokens: templates without a language get *)
(* their macro tokens, whose lengths are read from the lines of the text;  *)
(* for the next template with a language the handler locks the second      *)
(* mutex; after the last template it sorts, encodes, drops the guard of    *)
(* the first mutex and answers.  The record keeps the text whose lines     *)
(* were read and the outcome of each template: the tokens answered are     *)
(* generate_semantic_tokens of these; it also keeps the text that was      *)
(* cached for the URI at that time                                         *)
RECURSIVE WithLanguage(_)
WithLanguage(languages) ==
    IF languages = <<>> \/ Head(languages) # None THEN languages
    ELSE WithLanguage(Tail(languages))

(* the outcome noted for a template that is not highlighted *)
NoOutcome == [fails |-> FALSE, events |-> <<>>]

(* variant: the line lengths are taken from the text cached now *)
LineTextFromCache(handler, cache) == cache[handler.uri]

(* the text whose lines give the lengths of the macro tokens: the local    *)
(* text the handler cloned from the cache when it started                   *)
LineText(handler, cache) == handler.text

NextTemplate ==
    \E id \in 1..Len(handlers) :
        /\ handlers[id].at = "templates"
        /\ LET h == handlers[id]
               rest == WithLanguage(h.languages)
               outcomes == h.outcomes
                           \o [i \in 1..(Len(h.languages) - Len(rest)) |-> NoOutcome]
           IN  IF rest = <<>>
               THEN /\ handlers' = [handlers EXCEPT ![id] =
                          [h EXCEPT !.at = "done", !.languages = <<>>,
                                    !.outcomes = outcomes, !.answer = "tokens",
                                    !.lines = LineText(h, document_cache),
                                    !.cached = document_cache[h.uri]]]
                    /\ mutexes' = Unlock(mutexes, FirstLock(id))
               ELSE /\ handlers' = [handlers EXCEPT ![id] =
                          [h EXCEPT !.at = "second_wait", !.languages = rest,
                                    !.outcomes = outcomes]]
                    /\ mutexes' = Lock(mutexes, SecondLock(id), id)
        /\ UNCHANGED <<coreVars, document_cache, response>>

(* the handler got the second mutex: highlight_template runs; on Ok the   *)
(* guard is dropped at the end of the iteration, on Err the handler        *)
(* awaits its log message with both guards                                 *)
Highlighted ==
    /\ NoneRunning
    /\ \E id \in 1..Len(handlers) :
          /\ handlers[id].at = "second_wait"
          /\ mutexes[SecondLock(id)].owner = id
          /\ \E fails \in BOOLEAN :
                LET outcomes == Append(handlers[id].outcomes,
                                       [fails |-> fails, events |-> <<>>])
                IN  IF fails
                    THEN /\ handlers' = [handlers EXCEPT ![id].at = "logging",
                                            ![id].outcomes = outcomes]
                         /\ UNCHANGED mutexes
                    ELSE /\ handlers' = [handlers EXCEPT ![id].at = "templates",
                                            ![id].languages = Tail(@),
                                            ![id].outcomes = outcomes]
                         /\ mutexes' = Unlock(mutexes, SecondLock(id))
    /\ UNCHANGED <<coreVars, document_cache, response>>

(* client.log_message(...).await returns: the failed iteration ends and   *)
(* drops the second guard; the analysis ends and drops its guard; the      *)
(* request without a cached text answers                                   *)
Logged ==
    /\ NoneRunning
    /\ \E id \in 1..Len(handlers) :
          /\ handlers[id].at = "logging"
          /\ IF mutexes[SecondLock(id)].owner = id
             THEN /\ handlers' = [handlers EXCEPT ![id].at = "templates",
                                     ![id].languages = Tail(@)]
                  /\ mutexes' = Unlock(mutexes, SecondLock(id))
             ELSE IF mutexes[FirstLock(id)].owner = id
             THEN /\ handlers' = [handlers EXCEPT ![id].at = "done"]
                  /\ mutexes' = Unlock(mutexes, FirstLock(id))
             ELSE /\ handlers' = [handlers EXCEPT ![id].at = "done",
                                     ![id].answer =
                                        IF handlers[id].method = "semantic_tokens"
                                        THEN "null" ELSE "none"]
                  /\ UNCHANGED mutexes
    /\ UNCHANGED <<coreVars, document_cache, response>>

Next == Parse \/ Highlight \/ Project

NextSession == DidOpen \/ DidClose \/ SemanticTokensFull

Progress == Entered \/ NextTemplate \/ Highlighted \/ Logged

NextServer == Arrive \/ Progress

NextParser == Parse \/ NextDocument

(* extraction, embedded highlighting and projection of one template *)
Spec == Init /\ [][Next]_vars

(* extraction of one template *)
SpecExtract == InitExtract /\ [][Parse]_vars

(* find_template_strings on a document, fresh parser *)
SpecDoc == InitDoc /\ [][Parse]_vars

(* find_template_strings on documents of string literals of every opener *)
SpecPrefix == InitPrefix /\ [][Parse]_vars

(* find_template_strings on a function definition and a call of it *)
SpecCall == InitCall /\ [][Parse]_vars

(* a session: the client opens and closes the document under two URIs     *)
(* and asks for its semantic tokens                                        *)
SpecSession == InitSession /\ [][NextSession]_vars

(* find_template_strings under either order of the matches of one node *)
SpecMatch == InitMatch /\ [][ParseMatches]_vars

(* find_template_strings on a document with imports and type aliases *)
SpecAlias == InitAlias /\ [][Parse]_vars

(* a session on a document of one template with interpolations *)
SpecTokens == InitTokens /\ [][NextSession]_vars

(* the cache under did_open, did_change and did_close, one at a time *)
InitCache == Fresh /\ document = <<>>

SpecCache == InitCache /\ [][Notify]_vars

(* concurrent handlers: the runtime polls every handler that can go on,   *)
(* and the client takes the log messages sent to it                        *)
InitServer == Fresh /\ document = <<>>

SpecServer == InitServer /\ [][NextServer]_vars /\ WF_vars(Progress)

(* find_template_strings on one document after another, same parser *)
SpecParser == InitParser /\ [][NextParser]_vars

(* ---------------------------------------------------------------------- *)
(* the interior of a template literal, read off its pieces                 *)
(* ---------------------------------------------------------------------- *)
PieceStripped(p) ==
    CASE p = "lb" -> <<LB>>
      [] p = "rb" -> <<RB>>
      [] p \in InterpolationPieces -> <<LB, RB>>
      [] OTHER -> PieceRaw(p)

StrippedOf(ps) == Flatten([i \in 1..Len(ps) |-> PieceStripped(ps[i])])

ExpressionText(p) ==
    CASE p = "iml" -> <<"(", NL, ")">>
      [] OTHER -> <<"x">>

InterpolationIndices(ps) ==
    LET IsInterpolation(i) == ps[i] \in InterpolationPieces
    IN  SelectSeq([i \in 1..Len(ps) |-> i], IsInterpolation)

LiteralNewlines(ps) == Cardinality({i \in 1..Len(ps) : ps[i] = "nl"})

ParsedPieces == document[1].right.pieces

(* C1: the stripped content holds exactly as many non-overlapping "{}" as   *)
(* the record has expressions, and the k-th "{}" stands where the k-th      *)
(* interpolation stood, also when the template holds {{ and }} escapes.     *)
C1_SentinelPerExpression ==
    pc = "parsed" =>
        LET t == template_list[1]
            sentinels == SentinelPositions(t.content, 0)
            interps == InterpolationIndices(ParsedPieces)
        IN  /\ Len(sentinels) = Len(t.expressions)
            /\ \A k \in 1..Len(sentinels) :
                  /\ k <= Len(interps)
                  /\ sentinels[k] = Len(StrippedOf(SubSeq(ParsedPieces, 1, interps[k] - 1)))
                  /\ t.expressions[k].content = ExpressionText(ParsedPieces[interps[k]])

(* C5 as stated: the stripped content has as many newlines as the raw      *)
(* interior, interpolations that span lines included.                      *)
C5_NewlinesAsRawInterior ==
    pc = "parsed" =>
        CountChar(template_list[1].content, NL) = CountChar(RawInterior(ParsedPieces), NL)

(* C5: the stripped content has as many newlines as the raw interior has   *)
(* outside its interpolations; the newlines inside an interpolation are    *)
(* dropped with it.                                                        *)
C5_NewlinesOutsideInterpolations ==
    pc = "parsed" =>
        /\ CountChar(template_list[1].content, NL) = LiteralNewlines(ParsedPieces)
        /\ (\A i \in 1..Len(ParsedPieces) : ParsedPieces[i] # "iml") =>
              CountChar(template_list[1].content, NL)
                  = CountChar(RawInterior(ParsedPieces), NL)

C5_Witness ==
    /\ pc = "parsed"
    /\ \E i, j \in 1..Len(ParsedPieces) : ParsedPieces[i] = "nl" /\ ParsedPieces[j] = "iml"
    /\ CountChar(template_list[1].content, NL) = 1
    /\ Len(template_list[1].expressions) = 1

(* C6: the stripped content is the raw interior with {{ read as {, }} read *)
(* as }, every interpolation read as {} and every other character kept.    *)
C6_StrippedContent ==
    pc = "parsed" => template_list[1].content = StrippedOf(ParsedPieces)

C6_Witness ==
    /\ pc = "parsed"
    /\ ParsedPieces = <<"lb", "ifmt", "rb">>
    /\ template_list[1].content = <<LB, LB, RB, RB>>

(* ---------------------------------------------------------------------- *)
(* projection of the spans of a template onto the document                 *)
(* ---------------------------------------------------------------------- *)
(* the piece that produced stripped-content byte j *)
PieceOfStripped(ps, j) ==
    CHOOSE i \in 1..Len(ps) :
        /\ Len(StrippedOf(SubSeq(ps, 1, i - 1))) <= j
        /\ j < Len(StrippedOf(SubSeq(ps, 1, i)))

(* the raw-interior offset of the source character that produced byte j:   *)
(* the second byte of a "{}" comes from the interpolation's closing brace  *)
RawOffsetOfStripped(ps, j) ==
    LET i == PieceOfStripped(ps, j)
        within == j - Len(StrippedOf(SubSeq(ps, 1, i - 1)))
    IN  Len(RawInterior(SubSeq(ps, 1, i - 1)))
        + (IF within = 0 THEN 0 ELSE Len(PieceRaw(ps[i])) - 1)

(* 0-based document position of that character *)
DocumentPositionOfStripped(doc, j) ==
    LET lit == doc[1].right
        interior == StmtOffset(doc, 1) + Len(AssignmentPrefix(doc[1])) + Len(lit.opener)
    IN  PointAt(SourceOf(doc), interior + RawOffsetOfStripped(lit.pieces, j))

SpanRanges ==
    LET IsSpan(r) == r.highlight_name # "variable.parameter"
    IN  SelectSeq(highlight_ranges, IsSpan)

SpanTokens == SubSeq(lsp_tokens, Len(template_list[1].expressions) + 1, Len(lsp_tokens))

TokenBefore(a, b) == a[1] < b[1] \/ (a[1] = b[1] /\ a[2] <= b[2])

NonDecreasing(toks) ==
    \A i \in 1..Len(toks) : \A j \in i..Len(toks) : TokenBefore(toks[i], toks[j])

StartsPiece(ps, j) == j = Len(StrippedOf(SubSeq(ps, 1, PieceOfStripped(ps, j) - 1)))

(* C2: every span that is not a variable.parameter span gets a token at    *)
(* the 0-based document position of the source character that produced    *)
(* stripped-content byte start_byte, whatever precedes the span.  Stated   *)
(* for the spans that start at a literal character, at an escape or at the *)
(* first byte of a "{}".                                                   *)
C2_SpanTokenAtSourcePosition ==
    pc = "projected" =>
        /\ Len(SpanTokens) = Len(SpanRanges)
        /\ \A k \in 1..Len(SpanRanges) :
              StartsPiece(ParsedPieces, SpanRanges[k].start_byte) =>
                  LET at == DocumentPositionOfStripped(document, SpanRanges[k].start_byte)
                  IN  SpanTokens[k][1] = at.row /\ SpanTokens[k][2] = at.column

(* C3 as stated: the whole token list of a template is in non-decreasing   *)
(* (line, column) order.                                                   *)
C3_TokenListNonDecreasing ==
    pc = "projected" => NonDecreasing(lsp_tokens)

(* C3: the tokens emitted for the spans, which follow the tokens of the    *)
(* interpolation expressions in the list, are in non-decreasing (line,     *)
(* column) order when the spans are sorted by start_byte.                  *)
C3_SpanTokensNonDecreasing ==
    pc = "projected" => NonDecreasing(SpanTokens)

C3_Witness ==
    /\ pc = "projected"
    /\ Len(template_list[1].expressions) > 0
    /\ Len(SpanTokens) = 2
    /\ SpanTokens[1][1] < SpanTokens[2][1]
    /\ ~NonDecreasing(lsp_tokens)

(* ---------------------------------------------------------------------- *)
(* one parser, one document after another                                  *)
(* ---------------------------------------------------------------------- *)
FreshParserResult == find_template_strings(document, ModuleContextDefault, FALSE)

(* C4: find_template_strings(B) on a parser that has parsed A before       *)
(* returns the records a fresh parser returns for B, and the context it    *)
(* resolves B with holds nothing collected from A.                         *)
C4_ContextIsolation ==
    pc = "parsed" =>
        /\ template_list = FreshParserResult.templates
        /\ module_context = FreshParserResult.context

(* B annotates a template with an alias and calls a function that only A   *)
(* defined, and B's records carry no language                              *)
C4_Witness ==
    /\ pc = "parsed"
    /\ "html" \in DOMAIN previous_context.type_aliases
    /\ "f" \in DOMAIN previous_context.function_signatures
    /\ document = << Assignment("x", <<Name("html")>>, PlainLiteral(TOpener)),
                     ExpressionStmt(Call("f", <<PlainLiteral(TOpener)>>)) >>
    /\ module_context = ModuleContextDefault
    /\ \A k \in 1..Len(template_list) : template_list[k].language = None
    /\ Len(template_list) = 2

(* ---------------------------------------------------------------------- *)
(* the string literals of a document and the records made of them          *)
(* ---------------------------------------------------------------------- *)
FirstMatchIndices(ms) ==
    LET IsFirst(i) == \A j \in 1..(i - 1) : ms[j].string.id # ms[i].string.id
    IN  SelectSeq([i \in 1..Len(ms) |-> i], IsFirst)

(* what the query captures around one string literal, over all its matches *)
SiteOf(ms, i) ==
    LET typed == {j \in 1..Len(ms) :
                    ms[j].string.id = ms[i].string.id /\ ms[j].type_annotation # <<>>}
    IN  [ node |-> ms[i].string,
          annotation |-> IF typed = {} THEN <<>>
                         ELSE ms[CHOOSE j \in typed : TRUE].type_annotation,
          func_name |-> ms[i].func_name,
          arguments |-> ms[i].arguments,
          index |-> ms[i].index ]

StringSites(doc) ==
    LET ms == QueryMatches(doc, FALSE)
        idx == FirstMatchIndices(ms)
    IN  [k \in 1..Len(idx) |-> SiteOf(ms, idx[k])]

SiteLocation(doc, site) ==
    LocationOf(SourceOf(doc), site.node.start_byte, site.node.end_byte)

SitePrefix(doc, site) ==
    LET NotQuote(c) == c # QUOTE
    IN  SelectSeq(Utf8Text(site.node.children[1], SourceOf(doc)), NotQuote)

PrefixHasT(prefix) == \E i \in 1..Len(prefix) : prefix[i] \in {"t", "T"}

(* the site the k-th record was made of *)
RecordSite(k) ==
    LET sites == StringSites(document)
    IN  sites[CHOOSE i \in 1..Len(sites) :
                 SiteLocation(document, sites[i]) = template_list[k].location]

(* C7: a matched string literal yields a record if and only if the letters *)
(* before its quotes contain t or T; every other literal is discarded.     *)
C7_RecordIffPrefixHasT ==
    pc = "parsed" =>
        LET sites == StringSites(document)
            IsTemplate(site) == PrefixHasT(SitePrefix(document, site))
            expected == SelectSeq(sites, IsTemplate)
        IN  [k \in 1..Len(template_list) |-> template_list[k].location]
            = [k \in 1..Len(expected) |-> SiteLocation(document, expected[k])]

AliasLookup(type_text, context) ==
    IF IsPlainName(type_text) /\ type_text.base[1] \in DOMAIN context.type_aliases
    THEN context.type_aliases[type_text.base[1]]
    ELSE None

AnnotationRule(site, context) ==
    IF site.annotation = <<>> THEN None
    ELSE extract_language_from_annotation("type", site.annotation[1], context)

AliasRule(site, context) ==
    IF site.annotation = <<>> THEN None ELSE AliasLookup(site.annotation[1], context)

CallRule(site, context) ==
    IF site.func_name = None THEN None
    ELSE infer_language_from_function_call(site.func_name, site, context)

FirstTag(tags) ==
    IF \A i \in 1..Len(tags) : tags[i] = None THEN None
    ELSE tags[CHOOSE i \in 1..Len(tags) :
                 tags[i] # None /\ \A j \in 1..(i - 1) : tags[j] = None]

(* C8: the language of a record is the tag of the first of the annotation  *)
(* rule, the alias lookup of the annotation text and the call-parameter    *)
(* rule that yields one, and None only when none of them yields a tag.     *)
C8_PriorityChain ==
    pc = "parsed" =>
        \A k \in 1..Len(template_list) :
            LET site == RecordSite(k)
            IN  template_list[k].language
                = FirstTag(<< AnnotationRule(site, module_context),
                              AliasRule(site, module_context),
                              CallRule(site, module_context) >>)

(* one record decided by the annotation rule and one, whose annotation the *)
(* annotation rule gives no tag for, decided by the alias lookup           *)
C8_Witness ==
    /\ pc = "parsed"
    /\ \E k \in 1..Len(template_list) :
          /\ AnnotationRule(RecordSite(k), module_context) = "html"
          /\ template_list[k].language = "html"
    /\ \E k \in 1..Len(template_list) :
          /\ RecordSite(k).annotation # <<>>
          /\ AnnotationRule(RecordSite(k), module_context) = None
          /\ AliasRule(RecordSite(k), module_context) = "html"
          /\ template_list[k].language = "html"

(* ---------------------------------------------------------------------- *)
(* the Annotated-Template-tag rule                                         *)
(* ---------------------------------------------------------------------- *)
TypingAnnotated == <<"typing", "Annotated">>

TemplatelibTemplate == <<"string", "templatelib", "Template">>

ResolvesTo(name, target, context) ==
    /\ Len(name) = 1
    /\ name[1] \in DOMAIN context.imports
    /\ context.imports[name[1]] = target

ImportResolvedShape(ann, context) ==
    /\ ann.sub
    /\ ResolvesTo(ann.base, TypingAnnotated, context)
    /\ ResolvesTo(ann.slot1, TemplatelibTemplate, context)
    /\ ann.slot2.kind = "string"

NamedOrResolvedShape(ann, context) ==
    /\ ann.sub
    /\ (ann.base = <<"Annotated">> \/ ResolvesTo(ann.base, TypingAnnotated, context))
    /\ (ann.slot1 = <<"Template">> \/ ResolvesTo(ann.slot1, TemplatelibTemplate, context))
    /\ ann.slot2.kind = "string"

UnboundBase(ann, context) ==
    /\ ann.sub
    /\ ann.base # <<"Annotated">>
    /\ \A i \in 1..Len(ann.base) : ann.base[i] \notin DOMAIN context.imports

AnnotatedRecords == {k \in 1..Len(template_list) : RecordSite(k).annotation # <<>>}

ParameterTypeAt(signature, n) ==
    LET at == {i \in 1..Len(signature) : signature[i].pos = n}
    IN  IF at = {} THEN <<>> ELSE << signature[CHOOSE i \in at : TRUE].type >>

CallRecords ==
    {k \in 1..Len(template_list) :
        /\ RecordSite(k).func_name # None
        /\ RecordSite(k).func_name \in DOMAIN module_context.function_signatures}

(* C10: a template passed to a function of the document whose parameter at *)
(* the template's positional index is typed gets the tag the               *)
(* Annotated-Template-tag rule gives for that type, aliased forms resolved *)
(* through the imports included, or else what type_aliases holds for it.   *)
C10_CallArgumentLanguage ==
    pc = "parsed" =>
        \A k \in CallRecords :
            LET site == RecordSite(k)
                type == ParameterTypeAt(module_context.function_signatures[site.func_name],
                                        site.index - 1)
            IN  type # <<>> =>
                    LET tag == extract_language_from_annotation("type", type[1], module_context)
                    IN  template_list[k].language
                        = IF tag # None THEN tag ELSE AliasLookup(type[1], module_context)

(* the parameters of the definition of a function in a document *)
ParametersOf(doc, func_name) ==
    LET defs == {i \in 1..Len(doc) :
                   doc[i].kind = "function_definition" /\ doc[i].name = func_name}
    IN  doc[CHOOSE i \in defs : \A j \in defs : j <= i].parameters

(* 0-based positional index of the argument at index j of a call: every    *)
(* argument before it that is not a keyword argument carries a value       *)
PositionalIndex(arguments, j) ==
    Cardinality({i \in 1..(j - 1) : arguments[i].kind # "keyword_argument"})

(* C11: the index counted for a template argument at the call site is the  *)
(* position recorded for the parameter it binds to: every value-bearing    *)
(* argument before it advances the index and keyword arguments do not;     *)
(* typed, untyped and defaulted parameters all advance the position.  The  *)
(* record therefore carries the tag of the type of that parameter.         *)
C11_CallIndexMatchesParameter ==
    pc = "parsed" =>
        \A k \in 1..Len(template_list) :
            LET site == RecordSite(k)
                params == ParametersOf(document, site.func_name)
                n == PositionalIndex(site.arguments, site.index)
            IN  template_list[k].language
                = IF n < Len(params) /\ params[n + 1].type # <<>>
                  THEN params[n + 1].type[1].slot2.text
                  ELSE None

(* ---------------------------------------------------------------------- *)
(* semantic tokens of a session                                            *)
(* ---------------------------------------------------------------------- *)
(* the absolute tokens a client reads from the delta-encoded data *)
RECURSIVE DecodeFrom(_, _, _)
DecodeFrom(data, prev_line, prev_start) ==
    IF data = <<>> THEN <<>>
    ELSE LET d == Head(data)
             line == prev_line + d.delta_line
             start == IF d.delta_line = 0 THEN prev_start + d.delta_start
                      ELSE d.delta_start
         IN  << <<line, start, d.length, d.token_type, d.token_modifiers_bitset>> >>
             \o DecodeFrom(Tail(data), line, start)

ResponseTokens == DecodeFrom(response.data, 0, 0)

(* the records of the document the session opens *)
SessionTemplates == find_template_strings(document, ModuleContextDefault, FALSE).templates

(* the tokens that start inside the source range of a template *)
TokensOfTemplate(toks, template) ==
    LET from == <<template.location.start_line - 1, template.location.start_column - 1>>
        to == <<template.location.end_line - 1, template.location.end_column - 1>>
        within(t) == /\ TokenBefore(from, t)
                     /\ t[1] < to[1] \/ (t[1] = to[1] /\ t[2] < to[2])
    IN  SelectSeq(toks, within)

(* the bytes of the 0-based line n of a text, its newline excluded *)
LineWidth(text, n) ==
    Cardinality({i \in 1..Len(text) : text[i] # NL /\ PointAt(text, i - 1).row = n})

MacroType == 14

ExpectedMacroTokens(template, text) ==
    LET l0 == template.location.start_line - 1
        c0 == template.location.start_column - 1
        l1 == template.location.end_line - 1
        c1 == template.location.end_column - 1
    IN  IF l0 = l1 THEN << <<l0, c0, c1 - c0, MacroType, 0>> >>
        ELSE [i \in 1..(l1 - l0 + 1) |->
                CASE i = 1 -> <<l0, c0, LineWidth(text, l0) - c0, MacroType, 0>>
                  [] i = l1 - l0 + 1 -> <<l1, 0, c1, MacroType, 0>>
                  [] OTHER -> <<l0 + i - 1, 0, LineWidth(text, l0 + i - 1), MacroType, 0>>]

(* C12: for a template without a resolved language the response holds     *)
(* macro tokens (type 14) only: one from start_column of length            *)
(* end_column - start_column where the template is on one line; otherwise  *)
(* end_line - start_line + 1 tokens, the first from start_column to the    *)
(* end of its line, one of full width from column 0 for each interior      *)
(* line, the last from column 0 up to end_column.                          *)
C12_MacroTokensOfUnresolved ==
    response.kind = "tokens" =>
        \A k \in 1..Len(SessionTemplates) :
            SessionTemplates[k].language = None =>
                TokensOfTemplate(ResponseTokens, SessionTemplates[k])
                    = ExpectedMacroTokens(SessionTemplates[k], SourceOf(document))

(* a response for a document with an unresolved template on one line and  *)
(* one on three lines                                                      *)
C12_Witness ==
    /\ response.kind = "tokens"
    /\ \E k \in 1..Len(SessionTemplates) :
          /\ SessionTemplates[k].language = None
          /\ SessionTemplates[k].location.end_line = SessionTemplates[k].location.start_line
    /\ \E k \in 1..Len(SessionTemplates) :
          /\ SessionTemplates[k].language = None
          /\ SessionTemplates[k].location.end_line
                 = SessionTemplates[k].location.start_line + 2
          /\ Len(TokensOfTemplate(ResponseTokens, SessionTemplates[k])) = 3

(* the templates for which the request logged a highlighting failure *)
FailedTemplates == {response.logged[i].template : i \in 1..Len(response.logged)} \ {0}

(* C13: where highlight_template fails for a template (no grammar for its  *)
(* tag, a parse error or a query error of the embedded grammar), the       *)
(* response holds for it a single macro token that covers its source       *)
(* range: it starts where the template starts and is as long as the        *)
(* template's source text, on one line or on several.                      *)
C13_FailureTokenCoversRange ==
    \A k \in FailedTemplates :
        /\ response.kind = "tokens"
        /\ TokensOfTemplate(ResponseTokens, SessionTemplates[k])
             = << << SessionTemplates[k].location.start_line - 1,
                     SessionTemplates[k].location.start_column - 1,
                     Len(SessionTemplates[k].raw_content),
                     MacroType, 0 >> >>

(* C14: a failure on one template does not abort the request: where the   *)
(* highlighting of a template failed, the request still answers with       *)
(* tokens, and the tokens of every other template of the document are      *)
(* among them.                                                             *)
C14_FailureIsLocal ==
    FailedTemplates # {} =>
        /\ response.kind = "tokens"
        /\ \A j \in 1..Len(SessionTemplates) :
              SessionTemplates[j].language = None =>
                  TokensOfTemplate(ResponseTokens, SessionTemplates[j])
                      = ExpectedMacroTokens(SessionTemplates[j], SourceOf(document))

(* the request logged that generate_semantic_tokens returned an error *)
ErrorLogged ==
    response.logged = <<[message |-> "Token generation failed", template |-> 0]>>

(* C15, as stated: on a failure the answer is a successful response that   *)
(* carries an empty token set.                                             *)
C15_EmptyTokenSetOnFailure ==
    ErrorLogged => response.kind = "tokens" /\ response.data = <<>>

(* the request that failed changed nothing but the answer *)
FailedRequestLeavesServer ==
    (response' # response /\ response'.kind = "null")
        => UNCHANGED <<pc, document_cache, module_context, mutexes>>

(* C15: semantic_tokens_full never answers with a protocol error; where    *)
(* generate_semantic_tokens fails with an error (text not cached, host     *)
(* parse failure, extraction error) it logs one message and answers        *)
(* successfully with a null result; the failed request leaves the server   *)
(* as it was, so the requests after it are served as if it had not been.   *)
C15_NullResultOnFailure ==
    /\ [](/\ response.kind \in {"none", "tokens", "null", "panic"}
          /\ ErrorLogged <=> response.kind = "null"
          /\ response.kind = "null" => response.data = <<>> /\ pc = "edit")
    /\ [][FailedRequestLeavesServer]_vars

(* a request for a URI that is not cached was answered, with a text       *)
(* cached under the other URI                                              *)
C15_Witness ==
    /\ response.kind = "null"
    /\ document_cache[response.uri] = <<>>
    /\ \E uri \in URIs : document_cache[uri] # <<>>

(* C16: the token list that is delta-encoded is sorted by (line, column)   *)
(* and holds no two tokens equal in all five fields, whatever tokens the   *)
(* templates of the document produce.                                      *)
C16_SortedWithoutDuplicates ==
    response.kind = "tokens" =>
        /\ NonDecreasing(response.all_tokens)
        /\ \A i, j \in 1..Len(response.all_tokens) :
              i # j => response.all_tokens[i] # response.all_tokens[j]

(* C17: for the sorted list it is given, convert_to_semantic_tokens        *)
(* yields delta_line = line - previous line, and delta_start = start -     *)
(* previous start where delta_line is 0 and the absolute start otherwise,  *)
(* the first token relative to (0, 0); no subtraction underflows, and      *)
(* decoding the data gives back the list.                                  *)
C17_DeltaEncodingRoundTrip ==
    response.kind = "tokens" =>
        LET toks == response.all_tokens
            prev(i) == IF i = 1 THEN <<0, 0>> ELSE <<toks[i - 1][1], toks[i - 1][2]>>
        IN  /\ Len(response.data) = Len(toks)
            /\ \A i \in 1..Len(toks) :
                  /\ toks[i][1] >= prev(i)[1]
                  /\ toks[i][1] = prev(i)[1] => toks[i][2] >= prev(i)[2]
                  /\ response.data[i].delta_line = toks[i][1] - prev(i)[1]
                  /\ response.data[i].delta_start
                       = IF toks[i][1] = prev(i)[1] THEN toks[i][2] - prev(i)[2]
                         ELSE toks[i][2]
                  /\ response.data[i].length = toks[i][3]
                  /\ response.data[i].token_type = toks[i][4]
                  /\ response.data[i].token_modifiers_bitset = toks[i][5]
            /\ ResponseTokens = toks

(* a list with two tokens at different columns of one line and a third    *)
(* on a later line at a smaller column                                     *)
C17_Witness ==
    /\ response.kind = "tokens"
    /\ \E i \in 1..(Len(response.all_tokens) - 2) :
          /\ response.all_tokens[i][1] = response.all_tokens[i + 1][1]
          /\ response.all_tokens[i][2] < response.all_tokens[i + 1][2]
          /\ response.all_tokens[i + 1][1] < response.all_tokens[i + 2][1]
          /\ response.all_tokens[i + 2][2] < response.all_tokens[i + 1][2]

(* ---------------------------------------------------------------------- *)
(* the document cache                                                      *)
(* ---------------------------------------------------------------------- *)
(* the entry the notifications received so far leave for a URI: the text  *)
(* of the most recent did_open or did_change for it, a did_change with     *)
(* several content changes leaving the document as its last change makes   *)
(* it; nothing after a did_close                                           *)
RECURSIVE LatestText(_, _)
LatestText(notifications, uri) ==
    IF notifications = <<>> THEN <<>>
    ELSE LET n == Last(notifications)
             before == LatestText(SubSeq(notifications, 1, Len(notifications) - 1), uri)
         IN  CASE n.uri # uri -> before
               [] n.method = "did_close" -> <<>>
               [] n.method \in {"did_open", "did_change"} /\ n.content_changes # <<>> ->
                      <<Last(n.content_changes)>>
               [] OTHER -> before

(* C18: after any sequence of did_open, did_change and did_close the       *)
(* cache entry of a URI is the full text that the most recent did_open or  *)
(* did_change for this URI carried, and there is no entry where the most   *)
(* recent notification for it was did_close; notifications for other URIs  *)
(* do not change it.                                                       *)
C18_CacheHoldsLatestText ==
    \A uri \in URIs : document_cache[uri] = LatestText(handlers, uri)

(* ---------------------------------------------------------------------- *)
(* concurrent requests                                                     *)
(* ---------------------------------------------------------------------- *)
Holds(id, name) == mutexes[name].owner = id

WaitsFor(id, name) == \E i \in 1..Len(mutexes[name].waiters) : mutexes[name].waiters[i] = id

HandlerIds == 1..MaxHandlers

Arrived(id) == id <= Len(handlers)

(* C19: a request that has the highlighter mutex has the extractor        *)
(* (parser) mutex too, so the extractor is locked first and is never       *)
(* requested by a holder of the highlighter; in no state do two requests   *)
(* each hold one mutex and wait for the other; and every request that      *)
(* arrived is completed at some later time.                                *)
C19_LockOrderAndCompletion ==
    /\ [](\A id \in HandlerIds :
             /\ Holds(id, "highlighter") \/ WaitsFor(id, "highlighter")
                    => Holds(id, "parser")
             /\ ~(Holds(id, "highlighter") /\ WaitsFor(id, "parser")))
    /\ [](~ \E p, q \in HandlerIds :
               /\ Holds(p, "parser") /\ WaitsFor(p, "highlighter")
               /\ Holds(q, "highlighter") /\ WaitsFor(q, "parser"))
    /\ \A id \in HandlerIds :
          Arrived(id) ~> (Arrived(id) /\ handlers[id].at = "done")

(* a token request holds both mutexes while it awaits its log message,    *)
(* a second request waits for the parser, and a third is completed         *)
C19_Witness ==
    \E p, q, r \in HandlerIds :
        /\ Arrived(p) /\ Arrived(q) /\ Arrived(r)
        /\ Holds(p, "parser") /\ Holds(p, "highlighter") /\ handlers[p].at = "logging"
        /\ WaitsFor(q, "parser")
        /\ handlers[r].at = "done"

(* C20: text updates for a URI take effect in the order of their arrival: *)
(* the text a semantic-tokens request computes its tokens from is the      *)
(* text of the last update that arrived before the request, never that of  *)
(* an earlier one, and the cache holds the text of the last update that    *)
(* arrived, so it never goes back to an earlier text.                      *)
C20_UpdatesInArrivalOrder ==
    /\ \A uri \in ServedURIs : document_cache[uri] = LatestText(handlers, uri)
    /\ \A id \in HandlerIds :
          Arrived(id) /\ handlers[id].method = "semantic_tokens" =>
              handlers[id].text = LatestText(SubSeq(handlers, 1, id - 1), handlers[id].uri)

(* two updates with different texts arrived, then a token request; the    *)
(* request has read the second text and waits for the parser, which the    *)
(* handler of the first update still holds                                 *)
C20_Witness ==
    /\ Len(handlers) = 3
    /\ handlers[1].method \in {"did_open", "did_change"}
    /\ handlers[2].method = "did_change"
    /\ handlers[1].content_changes # handlers[2].content_changes
    /\ handlers[3].method = "semantic_tokens"
    /\ handlers[3].text = handlers[2].content_changes
    /\ handlers[3].at = "first_wait"
    /\ handlers[1].at = "logging"

(* ---------------------------------------------------------------------- *)
(* tokens of interpolations                                                *)
(* ---------------------------------------------------------------------- *)
VariableType == 8

(* the tokens of the response at the recorded start of an expression *)
TokensAtExpression(expr) ==
    {j \in 1..Len(ResponseTokens) :
        /\ ResponseTokens[j][1] = expr.location.start_line - 1
        /\ ResponseTokens[j][2] = expr.location.start_column - 1
        /\ ResponseTokens[j][4] = VariableType}

(* C21: for every template of the document the response holds one token   *)
(* of the variable type (index 8) for each interpolation, at the recorded  *)
(* document position of the interpolation's expression, whether the        *)
(* template has a language or not and whether its embedded highlighting    *)
(* succeeded or not.                                                       *)
C21_InterpolationTokenPerExpression ==
    response.kind = "tokens" =>
        \A k \in 1..Len(SessionTemplates) :
            \A i \in 1..Len(SessionTemplates[k].expressions) :
                Cardinality(TokensAtExpression(SessionTemplates[k].expressions[i])) = 1

(* ---------------------------------------------------------------------- *)
(* length of a span token                                                  *)
(* ---------------------------------------------------------------------- *)
(* the raw-interior offset just past the source of stripped byte j: the    *)
(* first byte of a "{}" comes from the opening brace of the interpolation, *)
(* the byte of an escape from both of its braces                           *)
RawEndOfStripped(ps, j) ==
    LET i == PieceOfStripped(ps, j)
        within == j - Len(StrippedOf(SubSeq(ps, 1, i - 1)))
    IN  Len(RawInterior(SubSeq(ps, 1, i - 1)))
        + (IF ps[i] \in InterpolationPieces /\ within = 0 THEN 1
           ELSE Len(PieceRaw(ps[i])))

(* the document bytes of the source text of the stripped range [s, e) *)
RawLengthOfSpan(ps, s, e) == RawEndOfStripped(ps, e - 1) - RawOffsetOfStripped(ps, s)

(* C22: the token of a highlight span is as long as the source text of     *)
(* the span in the document: the stripped length of a span is its raw      *)
(* length, also where the span holds a "{}" or a collapsed escape.         *)
C22_SpanTokenLengthIsRawLength ==
    pc = "projected" =>
        \A k \in 1..Len(SpanRanges) :
            /\ k <= Len(SpanTokens)
            /\ SpanTokens[k][3]
                 = RawLengthOfSpan(ParsedPieces, SpanRanges[k].start_byte,
                                   SpanRanges[k].end_byte)

(* ---------------------------------------------------------------------- *)
(* type aliases                                                            *)
(* ---------------------------------------------------------------------- *)
(* the value expression of a statement that defines the alias name, in     *)
(* either form: type NAME = EXPR, or NAME: TypeAlias = EXPR                *)
AliasValues(doc, name) ==
    { doc[i].value : i \in {j \in 1..Len(doc) :
                              /\ doc[j].kind = "type_alias_statement"
                              /\ doc[j].name = name} }
    \cup
    { doc[i].right.ann : i \in {j \in 1..Len(doc) :
                                  /\ doc[j].kind = "assignment"
                                  /\ doc[j].left = name
                                  /\ doc[j].type = <<Name("TypeAlias")>>
                                  /\ doc[j].right.kind = "subscript"} }

(* the name is bound by an import of the document to the dotted name *)
ImportBinds(doc, name, target) ==
    \E i \in 1..Len(doc) :
        /\ doc[i].kind \in {"import_statement", "import_from_statement"}
        /\ (IF doc[i].alias # None THEN doc[i].alias ELSE Last(doc[i].name)) = name
        /\ doc[i].module \o doc[i].name = target

(* A[T, "tag"] with A and T bound by the imports of the document to        *)
(* typing.Annotated and string.templatelib.Template                        *)
ImportBoundShape(doc, ann) ==
    /\ ann.sub
    /\ ann.slot2.kind = "string"
    /\ Len(ann.base) = 1 /\ ImportBinds(doc, ann.base[1], TypingAnnotated)
    /\ Len(ann.slot1) = 1 /\ ImportBinds(doc, ann.slot1[1], TemplatelibTemplate)

(* C23: a type alias, in either form, whose value is A[T, "tag"] with A    *)
(* and T bound by the document's imports to typing.Annotated and           *)
(* string.templatelib.Template puts NAME -> tag into type_aliases, and a   *)
(* template annotated with NAME gets the tag.                              *)
C23_AliasOfImportedNames ==
    pc = "parsed" =>
        \A ann \in AliasValues(document, "H") :
            ImportBoundShape(document, ann) =>
                /\ "H" \in DOMAIN module_context.type_aliases
                /\ module_context.type_aliases["H"] = ann.slot2.text
                /\ \A k \in 1..Len(template_list) :
                      template_list[k].variable_name = "x" =>
                          template_list[k].language = ann.slot2.text

(* C25: every value of type_aliases is the language tag written as a       *)
(* string literal in the second slot of the Annotated-Template expression  *)
(* that defines the alias; no value is the text of a name or of another    *)
(* expression that is not a string.                                        *)
C25_AliasValuesAreStringTags ==
    pc = "parsed" =>
        \A name \in DOMAIN module_context.type_aliases :
            \E ann \in AliasValues(document, name) :
                /\ ann.sub
                /\ ann.slot2.kind = "string"
                /\ ann.slot2.text = module_context.type_aliases[name]

(* ---------------------------------------------------------------------- *)
(* spans of the embedded grammar over a sentinel                           *)
(* ---------------------------------------------------------------------- *)
(* the range holds a byte of a "{}" of the content *)
CoversSentinel(range, content) ==
    LET sentinels == SentinelPositions(content, 0)
    IN  \E k \in 1..Len(sentinels) :
           range.start_byte < sentinels[k] + 2 /\ sentinels[k] < range.end_byte

(* the spans of the embedded grammar that hold no sentinel byte *)
SpansClearOfSentinels ==
    LET IsClear(r) == ~CoversSentinel(r, template_list[1].content)
    IN  SelectSeq(SpanRanges, IsClear)

(* C24: the variable.parameter span on a "{}" overrides the class the      *)
(* embedded grammar gave to it: the projection emits no token of another   *)
(* class for a span that holds sentinel bytes, so the tokens of the spans  *)
(* are those of the spans that hold none.                                  *)
C24_SentinelSpanOverrides ==
    pc = "projected" =>
        SpanTokens = RangeTokens(SpansClearOfSentinels, template_list[1])

(* ---------------------------------------------------------------------- *)
(* one record for a literal that matches several alternatives              *)
(* ---------------------------------------------------------------------- *)
(* the template literals of the document, by the offset of their node *)
TemplateNodes ==
    LET ms == QueryMatches(document, FALSE)
    IN  {ms[i].string.id : i \in {j \in 1..Len(ms) :
            IsTemplateStart(Utf8Text(ms[j].string.children[1], SourceOf(document)))}}

(* the records made of the literal at the offset *)
RecordsOfNode(id) ==
    LET ms == QueryMatches(document, FALSE)
        node == ms[CHOOSE i \in 1..Len(ms) : ms[i].string.id = id].string
        at == LocationOf(SourceOf(document), node.start_byte, node.end_byte)
    IN  {k \in 1..Len(template_list) : template_list[k].location = at}

(* the annotated assignments of the document with a template on the right *)
AnnotatedAssignments ==
    {i \in 1..Len(document) :
        /\ document[i].kind = "assignment"
        /\ document[i].type # <<>>
        /\ document[i].right.kind = "string"}

(* the record of the template on the right of the i-th statement *)
RecordOfAssignment(i) ==
    template_list[CHOOSE k \in 1..Len(template_list) :
                     template_list[k].location.start_line = i]

AnnotationLanguage(i) ==
    extract_language_from_annotation("type", document[i].type[1], module_context)

SuspendedInside(id) == handlers[id].at \in {"second_wait", "logging"}

(* C27: a request holds the extractor (parser) mutex only for the          *)
(* duration of its find_template_strings call: in no reachable state does  *)
(* a request hold the extractor mutex while it waits for the highlighter   *)
(* mutex or while it is suspended sending a log message to the client.     *)
C27_ParserGuardOnlyDuringExtraction ==
    \A id \in HandlerIds :
        Arrived(id) /\ Holds(id, "parser") => ~SuspendedInside(id)

(* C28: once the extraction of a semantic-tokens request has started the   *)
(* request has no yield point until its token list is complete: while      *)
(* such a request is between its extraction and its answer, every step of  *)
(* the server is a step of that request.                                   *)
InsideRegion(id) ==
    /\ handlers[id].method = "semantic_tokens"
    /\ handlers[id].at \in {"templates", "second_wait", "logging"}
    /\ Holds(id, "parser")

C28_NoYieldInsideRegion ==
    [][\A id \in 1..Len(handlers) :
          InsideRegion(id) => handlers'[id] # handlers[id]]_vars

(***************************************************************************)
(* The text a semantic-tokens request works on (lib.rs,                    *)
(* generate_semantic_tokens)                                               *)
(***************************************************************************)

(* the tokens a finished request answered *)
TokensAnswered(handler) ==
    generate_semantic_tokens(handler.lines, [templates |-> handler.templates], FALSE,
                             handler.outcomes, FALSE).all_tokens

(* the text that was cached for the URI of a request when it arrived: that *)
(* of the notifications that arrived before it                             *)
SnapshotOf(id) == LatestText(SubSeq(handlers, 1, id - 1), handlers[id].uri)

Answered(id) ==
    /\ Arrived(id)
    /\ handlers[id].method = "semantic_tokens"
    /\ handlers[id].answer = "tokens"

(* C29: each semantic-tokens response is computed from the text that was   *)
(* cached for the URI when the request started: the template records, the  *)
(* lines whose lengths the macro tokens take and so the tokens answered    *)
(* are those of that text, whatever did_change or did_close did to the     *)
(* cache while the request was suspended.                                  *)
C29_TokensOfOneSnapshot ==
    \A id \in HandlerIds :
        Answered(id) =>
            LET snapshot == SnapshotOf(id)
                h == handlers[id]
            IN  /\ snapshot # <<>>
                /\ h.lines = snapshot
                /\ h.templates = TemplatesOf(snapshot[1])
                /\ TokensAnswered(h) =
                      generate_semantic_tokens(snapshot,
                          [templates |-> TemplatesOf(snapshot[1])], FALSE,
                          h.outcomes, FALSE).all_tokens

(* a request answered the tokens of a text with a template on two lines    *)
(* and an interpolation after the text of its URI was changed or closed    *)
C29_Witness ==
    \E id \in HandlerIds :
        /\ Answered(id)
        /\ handlers[id].cached # handlers[id].lines
        /\ \E k \in 1..Len(handlers[id].templates) :
              LET template == handlers[id].templates[k]
              IN  /\ template.language = None
                  /\ template.location.end_line > template.location.start_line
        /\ \E k \in 1..Len(handlers[id].templates) :
              handlers[id].templates[k].expressions # <<>>
        /\ \E later \in (id + 1)..Len(handlers) :
              handlers[later].method = "did_close"

(***************************************************************************)
(* The subtractions of the tokens (highlighter.rs, to_lsp_tokens; lib.rs,  *)
(* generate_semantic_tokens)                                               *)
(***************************************************************************)

(* C30: no unsigned subtraction used to build a token underflows: when     *)
(* to_lsp_tokens has run on a template, end_column - start_column is       *)
(* non-negative for every interpolation of it, also where the expression   *)
(* is on several lines, and the projection did not panic.                  *)
C30_NoSubtractionUnderflows ==
    /\ pc # "panicked"
    /\ pc = "projected" =>
          \A i \in 1..Len(template_list[1].expressions) :
              LET location == template_list[1].expressions[i].location
              IN  location.end_column - location.start_column >= 0

====
